---------------------------- MODULE Spec2Model ----------------------------
(***************************************************************************)
(* Multi-host task dispatch and result normalization of nornir_mcp.        *)
(*                                                                         *)
(* One request at a time enters through one of the entry points of the     *)
(* repository (the run_netmiko_command tool, a runner operation followed   *)
(* by BaseRunner.process_results, NapalmRunner.run_getter, and the         *)
(* get_device_facts prototype), resolves its targets against the           *)
(* inventory, runs one task per target (each target finishing on its own,  *)
(* in any order), normalizes the per-host results and builds the response. *)
(***************************************************************************)
EXTENDS Integers, Sequences, FiniteSets, TLC

(***************************************************************************)
(* Bounds of the model.                                                    *)
(***************************************************************************)
NumHosts == 3
MaxCalls == 2
MaxInits == 2
NumThreads == 2
MaxRegisters == 3
MaxThreadCalls == 4

(***************************************************************************)
(* Python values.  Every value is a record of the same shape so that any   *)
(* two values can be compared: a string, None, or a dict whose items are   *)
(* <<key, value>> pairs.                                                   *)
(***************************************************************************)
Leaf(s) == [t |-> "str", s |-> s, items |-> {}]
Dict(items) == [t |-> "dict", s |-> "", items |-> items]
PyNone == [t |-> "none", s |-> "", items |-> {}]

\* isinstance(data, dict)
IsDict(v) == v.t = "dict"
\* key in data
HasKey(v, key) == \E it \in v.items : it[1] = key
\* data[key]
GetItem(v, key) == (CHOOSE it \in v.items : it[1] = key)[2]

\* None and "" as arguments: both are falsy in `if host_name:`.
None == "<None>"
Truthy(s) == s # None /\ s # ""
\* str(x) of an optional string, as an f-string renders it
PyStr(s) == IF s = None THEN "None" ELSE s

(***************************************************************************)
(* constants.py                                                            *)
(***************************************************************************)
NO_HOSTS == "no_hosts"
INVALID_PARAMETERS == "invalid_parameters"
EXECUTION_FAILED == "execution_failed"
EXECUTION_ERROR == "execution_error"
NETMIKO == "netmiko"
NAPALM == "napalm"
PARAMIKO == "paramiko"
RELOAD_FAILED == "reload_failed"
TargetType_ALL == "all"
TargetType_GROUP == "group"

(***************************************************************************)
(* The inventory: hosts in discovery order and their groups.               *)
(***************************************************************************)
HostSeq == <<"r1", "r2", "r3", "r4", "r5">>
AllHosts == SubSeq(HostSeq, 1, NumHosts)
GroupsOf(h) ==
    CASE h = "r1" -> {"core"}
      [] h = "r2" -> {"core", "edge"}
      [] h = "r3" -> {"edge"}
      [] h = "r4" -> {"core"}
      [] OTHER -> {}
Inventories == {AllHosts, <<>>}

RECURSIVE SelectSeq2(_, _)
\* the hosts of s, in order, that are in the set keep
SelectSeq2(s, keep) ==
    IF s = <<>> THEN <<>>
    ELSE IF Head(s) \in keep THEN <<Head(s)>> \o SelectSeq2(Tail(s), keep)
    ELSE SelectSeq2(Tail(s), keep)

Range(s) == {s[i] : i \in 1..Len(s)}

(***************************************************************************)
(* utils.py                                                                *)
(***************************************************************************)
\* Variant: the second operand negated by mistake.
validate_target_params_raises_negated(host_name, group_name) ==
    Truthy(host_name) /\ ~Truthy(group_name)

\* TRUE when validate_target_params raises ValueError
validate_target_params_raises(host_name, group_name) ==
    Truthy(host_name) /\ Truthy(group_name)

ValueError_message == "Cannot specify both host_name and group_name"

\* Variant: the group is returned without its "group:" prefix.
format_target_no_prefix(host_name, group_name) ==
    IF Truthy(host_name) THEN host_name
    ELSE IF Truthy(group_name) THEN group_name
    ELSE TargetType_ALL

format_target(host_name, group_name) ==
    IF Truthy(host_name) THEN host_name
    ELSE IF Truthy(group_name) THEN TargetType_GROUP \o ":" \o group_name
    ELSE TargetType_ALL

extract_single_key(data, key) ==
    IF IsDict(data) /\ HasKey(data, key) THEN GetItem(data, key) ELSE data


(***************************************************************************)
(* What a per-host task leaves behind: nornir's MultiResult, a list of     *)
(* Result records (the task's own record first, then its subtasks').       *)
(***************************************************************************)
NoException == [type |-> "NoneType", args |-> ""]
ConnectionRefused == [type |-> "ConnectionError", args |-> "Connection refused"]
TimedOut == [type |-> "TimeoutError", args |-> "timed out"]
Exceptions == {ConnectionRefused, TimedOut}

\* str(exception): the exception's message, "None" for no exception object
Str(exc) == IF exc.type = "NoneType" THEN "None" ELSE exc.args

P_output == Leaf("command output")
P_facts == Dict({<<"facts", Dict({<<"model", Leaf("X")>>})>>})
P_both == Dict({<<"facts", Leaf("target")>>, <<"other", Leaf("ignored")>>})
P_other == Dict({<<"interfaces", Leaf("eth0")>>})
RawPayloads == {P_output, P_facts, P_both, P_other}

Ok(payload) == [failed |-> FALSE, exception |-> NoException, result |-> payload]
Failed(exc) == [failed |-> TRUE, exception |-> exc, result |-> Leaf("Traceback")]

\* The outcomes of one target's task: no record at all, one record (a
\* success or an exception, a timeout among them), or the record of the
\* task followed by that of a subtask.
TaskOutcomes ==
    {<<>>}
    \cup {<<Ok(p)>> : p \in RawPayloads}
    \cup {<<Failed(e)>> : e \in Exceptions}
    \cup {<<Ok(P_facts), Ok(P_output)>>}

\* MultiResult.failed: any record failed
MultiResult_failed(multi_result) ==
    \E i \in 1..Len(multi_result) : multi_result[i].failed

(***************************************************************************)
(* result.py: Success(value) and Error(error_type, message), and the other *)
(* things a runner call can hand back, as records of one shape.            *)
(***************************************************************************)
NoData == [h \in {} |-> PyNone]
Success(value) == [tag |-> "Success", value |-> value, error_type |-> "", message |-> ""]
Error(error_type, message) ==
    [tag |-> "Error", value |-> NoData, error_type |-> error_type, message |-> message]
PlainDict(value) == [tag |-> "dict", value |-> value, error_type |-> "", message |-> ""]
NoResult == [tag |-> "none", value |-> NoData, error_type |-> "", message |-> ""]

\* BaseRunner.format_error
format_error(error_type, message) == Error(error_type, message)

\* An Error object stored as a value inside a per-host map
ErrorObject(error_type, message) ==
    [t |-> "Error", s |-> "",
     items |-> {<<"error_type", Leaf(error_type)>>, <<"message", Leaf(message)>>}]

\* the dict {"error": ..., "message": ...}
ErrorDict(error, message) ==
    Dict({<<"error", Leaf(error)>>, <<"message", Leaf(message)>>})

\* processed_data[hostname] = entry
Put(d, k, v) == [x \in (DOMAIN d) \cup {k} |-> IF x = k THEN v ELSE d[x]]

(***************************************************************************)
(* Extractors handed to process_results: none, the pass-through closures   *)
(* of the Paramiko runner, and "pull one named key" (extract_single_key).  *)
(***************************************************************************)
NoExtractor == [kind |-> "none", key |-> ""]
IdentityExtractor == [kind |-> "identity", key |-> ""]
KeyExtractor(key) == [kind |-> "key", key |-> key]
Extractors == {NoExtractor, IdentityExtractor, KeyExtractor("facts")}

\* extractor(task_output)
ApplyExtractor(extractor, task_output) ==
    IF extractor.kind = "key" THEN extract_single_key(task_output, extractor.key)
    ELSE task_output

(***************************************************************************)
(* An AggregatedResult is the sequence of its items, <<hostname,           *)
(* multi_result>>, in insertion order.                                     *)
(***************************************************************************)
HostNames(aggregated_result) ==
    {aggregated_result[i][1] : i \in 1..Len(aggregated_result)}
MultiResultOf(aggregated_result, hostname) ==
    (CHOOSE it \in Range(aggregated_result) : it[1] = hostname)[2]

(***************************************************************************)
(* BaseRunner.process_results                                              *)
(***************************************************************************)
NoTaskResultsMessage == "No task results available for this host"
NoHostsMessage == "No hosts found for the given target."

\* Variant: the message is the exception's class name, not str(exception).
process_results_entry_class_name(multi_result, extractor) ==
    IF Len(multi_result) = 0
    THEN ErrorDict(EXECUTION_FAILED, NoTaskResultsMessage)
    ELSE IF multi_result[1].failed
    THEN ErrorDict(EXECUTION_FAILED, multi_result[1].exception.type)
    ELSE IF extractor.kind # "none"
    THEN ApplyExtractor(extractor, multi_result[1].result)
    ELSE multi_result[1].result

\* Variant: without an extractor, a default one pulls the "facts" key.
process_results_entry_default_key(multi_result, extractor) ==
    IF Len(multi_result) = 0
    THEN ErrorDict(EXECUTION_FAILED, NoTaskResultsMessage)
    ELSE IF multi_result[1].failed
    THEN ErrorDict(EXECUTION_FAILED, Str(multi_result[1].exception))
    ELSE IF extractor.kind # "none"
    THEN ApplyExtractor(extractor, multi_result[1].result)
    ELSE extract_single_key(multi_result[1].result, "facts")

\* the body of the loop: the entry stored for one host
process_results_entry(multi_result, extractor) ==
    IF Len(multi_result) = 0
    THEN ErrorDict(EXECUTION_FAILED, NoTaskResultsMessage)
    ELSE LET primary_task == multi_result[1]
         IN IF primary_task.failed
            THEN ErrorDict(EXECUTION_FAILED, Str(primary_task.exception))
            ELSE LET task_output == primary_task.result
                 IN IF extractor.kind # "none"
                    THEN ApplyExtractor(extractor, task_output)
                    ELSE task_output

RECURSIVE process_results_loop_skips(_, _, _)
\* Variant: a host without records is skipped (continue before the entry
\* is stored).
process_results_loop_skips(items, extractor, processed_data) ==
    IF items = <<>> THEN processed_data
    ELSE IF Len(Head(items)[2]) = 0
    THEN process_results_loop_skips(Tail(items), extractor, processed_data)
    ELSE process_results_loop_skips(
             Tail(items), extractor,
             Put(processed_data, Head(items)[1],
                 process_results_entry(Head(items)[2], extractor)))

RECURSIVE process_results_loop(_, _, _)
\* for hostname, multi_result in aggregated_result.items(): ...
process_results_loop(items, extractor, processed_data) ==
    IF items = <<>> THEN processed_data
    ELSE LET hostname == Head(items)[1]
             multi_result == Head(items)[2]
         IN process_results_loop(
                Tail(items), extractor,
                Put(processed_data, hostname,
                    process_results_entry(multi_result, extractor)))

\* Variant: multi_result[0] without the length check; IndexError leaves
\* process_results on the first host without records.
process_results_unsafe_index(aggregated_result, extractor) ==
    IF aggregated_result = <<>>
    THEN format_error(NO_HOSTS, NoHostsMessage)
    ELSE IF \E i \in 1..Len(aggregated_result) : Len(aggregated_result[i][2]) = 0
    THEN [tag |-> "Raised", value |-> NoData, error_type |-> "IndexError",
          message |-> "list index out of range"]
    ELSE Success(process_results_loop(aggregated_result, extractor, NoData))

\* Variant: no check for an empty AggregatedResult.
process_results_unchecked(aggregated_result, extractor) ==
    Success(process_results_loop(aggregated_result, extractor, NoData))

process_results(aggregated_result, extractor) ==
    IF aggregated_result = <<>>
    THEN format_error(NO_HOSTS, NoHostsMessage)
    ELSE Success(process_results_loop(aggregated_result, extractor, NoData))

\* Variant: the loop consumes the record it reads (multi_result.pop(0)).
aggregated_result_after_pop(aggregated_result) ==
    [i \in 1..Len(aggregated_result) |->
        <<aggregated_result[i][1],
          IF Len(aggregated_result[i][2]) = 0 THEN <<>>
          ELSE Tail(aggregated_result[i][2])>>]

\* The AggregatedResult after process_results has run on it: the loop only
\* reads it.
aggregated_result_after(aggregated_result) == aggregated_result

(***************************************************************************)
(* NapalmRunner.run_getter, from the AggregatedResult on                   *)
(***************************************************************************)
supported_getters == {"facts", "interfaces"}

\* res.get(getter) if isinstance(res, dict) else res
run_getter_extract(res, getter) ==
    IF IsDict(res)
    THEN (IF HasKey(res, getter) THEN GetItem(res, getter) ELSE PyNone)
    ELSE res

RECURSIVE run_getter_loop(_, _, _)
\* the loop over result.items(); task_result[0] raises IndexError on a host
\* without records, which ends the loop
run_getter_loop(items, getter, data) ==
    IF items = <<>> THEN [raised |-> FALSE, data |-> data]
    ELSE LET host == Head(items)[1]
             task_result == Head(items)[2]
         IN IF Len(task_result) = 0
            THEN [raised |-> TRUE, data |-> data]
            ELSE LET actual_result == task_result[1]
                     entry == IF actual_result.failed
                              THEN ErrorObject("napalm_failed", Str(actual_result.exception))
                              ELSE run_getter_extract(actual_result.result, getter)
                 IN run_getter_loop(Tail(items), getter, Put(data, host, entry))

run_getter_results(result, getter, hostname) ==
    IF result = <<>>
    THEN format_error(NO_HOSTS, "No hosts found for target: "
                                \o (IF Truthy(hostname) THEN hostname ELSE "all"))
    ELSE LET looped == run_getter_loop(result, getter, NoData)
         IN IF looped.raised
            THEN format_error(EXECUTION_ERROR, "list index out of range")
            ELSE PlainDict(looped.data)

(***************************************************************************)
(* get_device_facts (nornir_tools.py), from the AggregatedResult on        *)
(***************************************************************************)
RECURSIVE get_device_facts_loop(_, _)
\* MultiResult.exception and MultiResult.result are those of its first
\* record (IndexError without one); .get on a payload that is no dict
\* raises AttributeError
get_device_facts_loop(items, facts) ==
    IF items = <<>> THEN [raised |-> FALSE, message |-> "", data |-> facts]
    ELSE LET host == Head(items)[1]
             task_result == Head(items)[2]
         IN IF Len(task_result) = 0
            THEN [raised |-> TRUE, message |-> "list index out of range", data |-> facts]
            ELSE IF MultiResult_failed(task_result)
            THEN get_device_facts_loop(
                     Tail(items),
                     Put(facts, host,
                         ErrorDict("napalm_failed", Str(task_result[1].exception))))
            ELSE IF ~IsDict(task_result[1].result)
            THEN [raised |-> TRUE,
                  message |-> "'str' object has no attribute 'get'", data |-> facts]
            ELSE get_device_facts_loop(
                     Tail(items),
                     Put(facts, host,
                         IF HasKey(task_result[1].result, "facts")
                         THEN GetItem(task_result[1].result, "facts")
                         ELSE Dict({})))

(***************************************************************************)
(* types.py error_response and the response of a tool, as a record with    *)
(* every key a response can carry; Absent marks a key that is not there.   *)
(***************************************************************************)
Absent == "<absent>"
AbsentData == [tag |-> "absent", value |-> NoData, error_type |-> "", message |-> ""]
NoResponse ==
    [error |-> Absent, message |-> Absent, backend |-> Absent, command |-> Absent,
     getter |-> Absent, status |-> Absent, target |-> Absent, data |-> AbsentData,
     facts |-> AbsentData, local_path |-> Absent, remote_path |-> Absent]

error_response(error_type, message) ==
    [NoResponse EXCEPT !.error = error_type, !.message = message]

(***************************************************************************)
(* BaseRunner.run_on_hosts: the hosts the filtered inventory holds          *)
(***************************************************************************)
\* Variant: the filters are not applied.
run_on_hosts_unfiltered(nr, host_name, group_name) == nr

run_on_hosts(nr, host_name, group_name) ==
    IF Truthy(host_name) THEN SelectSeq2(nr, {host_name})
    ELSE IF Truthy(group_name)
         THEN SelectSeq2(nr, {h \in Range(nr) : group_name \in GroupsOf(h)})
         ELSE nr

(***************************************************************************)
(* runners/paramiko_runner.py: the operations of ParamikoRunner and the    *)
(* task each of them runs on one host.  A path is the sequence of its      *)
(* components; a task is a record of where it stands, the state of its     *)
(* SSH connection and transfer channel, the local path it is writing, the  *)
(* steps it has executed, and the value it is about to return.             *)
(***************************************************************************)
SSH_COMMAND == "run_ssh_command"
SFTP_UPLOAD == "sftp_upload"
SFTP_DOWNLOAD == "sftp_download"
SCP_UPLOAD == "scp_upload"
SCP_DOWNLOAD == "scp_download"
Operations == {SSH_COMMAND, SFTP_UPLOAD, SFTP_DOWNLOAD, SCP_UPLOAD, SCP_DOWNLOAD}
\* a method the paramiko_sftp_list tool asks for and ParamikoRunner lacks
SFTP_LIST == "sftp_list"

IsScp(operation) == operation \in {SCP_UPLOAD, SCP_DOWNLOAD}
IsDownload(operation) == operation \in {SFTP_DOWNLOAD, SCP_DOWNLOAD}
IsUpload(operation) == operation \in {SFTP_UPLOAD, SCP_UPLOAD}

\* host.hostname of the inventory: two hosts reached at one address on
\* different ports, one host without an address
HostnameOf(h) ==
    CASE h = "r1" -> "10.0.0.1"
      [] h = "r2" -> "10.0.0.1"
      [] h = "r4" -> "10.0.0.4"
      [] OTHER -> None

\* hostname = host.hostname or host.name
hostname_of(h) == IF Truthy(HostnameOf(h)) THEN HostnameOf(h) ELSE h

RECURSIVE PathStr(_)
\* str(path)
PathStr(path) ==
    IF path = <<>> THEN ""
    ELSE IF Len(path) = 1 THEN path[1]
    ELSE path[1] \o "/" \o PathStr(Tail(path))

\* local_file_path: str(path_obj.parent / f"{hostname}_{path_obj.name}") when
\* the Nornir instance of the task holds more than one host
local_file_path(local_path, hostname, hosts) ==
    IF Len(hosts) > 1
    THEN SubSeq(local_path, 1, Len(local_path) - 1)
         \o <<hostname \o "_" \o local_path[Len(local_path)]>>
    ELSE local_path

AuthenticationException ==
    [type |-> "AuthenticationException", args |-> "Authentication failed."]
SSHException == [type |-> "SSHException", args |-> "Channel closed."]
SCPException == [type |-> "SCPException", args |-> "scp: permission denied"]
NoSuchFile == [type |-> "FileNotFoundError", args |-> "[Errno 2] No such file"]

ConnectErrors == {AuthenticationException, TimedOut}
ChannelErrors == {SSHException}
TransferErrors(operation) ==
    IF operation = SSH_COMMAND THEN {TimedOut}
    ELSE IF IsScp(operation) THEN {SCPException, NoSuchFile}
    ELSE {NoSuchFile, TimedOut}

\* the except clauses of a task, in their order: the dictionary returned
task_except(operation, exc) ==
    LET prefix ==
            IF exc.type = "FileNotFoundError" /\ operation # SSH_COMMAND
            THEN (IF IsUpload(operation) THEN "Local file not found: "
                  ELSE "Remote file not found: ")
            ELSE IF exc.type = "AuthenticationException" THEN "Authentication failed: "
            ELSE IF exc.type = "SSHException" THEN "SSH error: "
            ELSE IF exc.type = "SCPException" /\ IsScp(operation) THEN "SCP error: "
            ELSE IF operation = SSH_COMMAND THEN "Command execution failed: "
            ELSE IF IsUpload(operation) THEN "File upload failed: "
            ELSE "File download failed: "
    IN Dict({<<"error", Leaf(EXECUTION_ERROR)>>,
             <<"message", Leaf(prefix \o Str(exc))>>,
             <<"success", Leaf("False")>>})

\* the dictionary a task returns when nothing was raised
task_success(operation, r, hostname, path, exit_status) ==
    IF operation = SSH_COMMAND
    THEN Dict({<<"command", Leaf(r.command)>>,
               <<"stdout", Leaf("out")>>, <<"stderr", Leaf("")>>,
               <<"exit_status", Leaf(exit_status)>>,
               <<"success", Leaf(IF exit_status = "0" THEN "True" ELSE "False")>>})
    ELSE IF IsUpload(operation)
    THEN Dict({<<"local_path", Leaf(PathStr(r.local_path))>>,
               <<"remote_path", Leaf(r.remote_path)>>,
               <<"success", Leaf("True")>>,
               <<"message", Leaf("File uploaded successfully to " \o hostname)>>})
    ELSE Dict({<<"remote_path", Leaf(r.remote_path)>>,
               <<"local_path", Leaf(PathStr(path))>>,
               <<"success", Leaf("True")>>,
               <<"message", Leaf("File downloaded successfully from " \o hostname
                                 \o " to " \o PathStr(path))>>})

\* ssh_client = paramiko.SSHClient(): nothing connected, nothing done
NewTask ==
    [pc |-> "connect", ssh |-> "new", channel |-> "none", path |-> <<>>,
     writing |-> <<>>, log |-> <<>>, returns |-> PyNone]

\* the step has run without raising
Done(t, step, next) == [t EXCEPT !.log = Append(@, <<step, "ok">>), !.pc = next]

\* Variant: the exception is noted and the next statement runs all the same.
Raised_continues(operation, t, step, exc) ==
    [t EXCEPT !.log = Append(@, <<step, "failed">>),
              !.returns = task_except(operation, exc),
              !.pc = CASE step = "connect" -> "open_channel"
                       [] step = "open_channel" -> "transfer"
                       [] OTHER -> "release_connection"]

\* The step has raised: the inner finally of an SCP transfer runs, the
\* matching except clause fixes the value returned, and the outer finally
\* is what is left.
Raised(operation, t, step, exc) ==
    [t EXCEPT !.log = Append(@, <<step, "failed">>),
              !.returns = task_except(operation, exc),
              !.writing = <<>>,
              !.pc = IF IsScp(operation) /\ step = "transfer"
                     THEN "release_channel" ELSE "release_connection"]

\* ssh_client.connect(...)
connect(operation, t, exc) ==
    IF exc # NoException THEN Raised(operation, t, "connect", exc)
    ELSE [Done(t, "connect", "open_channel") EXCEPT !.ssh = "open"]

\* ssh_client.open_sftp(), scp.SCPClient(ssh_client.get_transport()),
\* ssh_client.exec_command(...)
open_channel(operation, t, exc) ==
    IF exc # NoException THEN Raised(operation, t, "open_channel", exc)
    ELSE [Done(t, "open_channel", "transfer") EXCEPT !.channel = "open"]

\* get(remote_path, local_file_path), put(local_path, remote_path) or the
\* reads of the command's output begin; a download writes its local file
begin_transfer(operation, t, path) ==
    [t EXCEPT !.pc = "transferring",
              !.path = path,
              !.writing = IF IsDownload(operation) THEN path ELSE <<>>]

\* the transfer ends: the return statement of an SSH command or an SCP
\* transfer fixes the value returned, an SFTP transfer goes on to close
\* its client
end_transfer(operation, t, exc, value) ==
    IF exc # NoException THEN Raised(operation, t, "transfer", exc)
    ELSE LET done == [Done(t, "transfer", "close_channel") EXCEPT !.writing = <<>>]
         IN IF operation = SSH_COMMAND
            THEN [done EXCEPT !.pc = "release_connection", !.returns = value]
            ELSE IF IsScp(operation)
            THEN [done EXCEPT !.pc = "release_channel", !.returns = value]
            ELSE done

\* sftp_client.close() followed by the return statement
close_channel(t, value) ==
    [Done(t, "close_channel", "release_connection") EXCEPT
        !.channel = "closed", !.returns = value]

\* finally: scp_client.close()
release_channel(t) ==
    [Done(t, "release_channel", "release_connection") EXCEPT !.channel = "closed"]

\* Variant: the client is closed at the end of the try block, not in finally.
release_connection_on_success(t) ==
    [Done(t, "release_connection", "done") EXCEPT
        !.ssh = IF \E i \in 1..Len(t.log) : t.log[i][2] = "failed" THEN t.ssh
                ELSE "closed",
        !.channel = IF \E i \in 1..Len(t.log) : t.log[i][2] = "failed" THEN t.channel
                    ELSE IF t.channel = "open" THEN "closed" ELSE t.channel]

\* finally: ssh_client.close(), which closes the transport and with it any
\* channel still open
release_connection(t) ==
    [Done(t, "release_connection", "done") EXCEPT
        !.ssh = "closed",
        !.channel = IF t.channel = "open" THEN "closed" ELSE t.channel]

\* BaseRunner.raise_error: raises MCPException(error_type, message)
raise_error(error_type, message) ==
    [tag |-> "MCPException", value |-> NoData, error_type |-> error_type, message |-> message]

\* getattr(runner, name) for a method the class does not define
AttributeError(name) ==
    [tag |-> "Raised", value |-> NoData, error_type |-> "AttributeError",
     message |-> "'ParamikoRunner' object has no attribute '" \o name \o "'"]

\* Variant: the paths are not looked at.
paramiko_validate_unchecked(r) == NoResult

\* the local files os.path.exists finds
LocalFiles == {<<"f.txt">>}

\* The checks a ParamikoRunner operation makes before anything else (the
\* scp package is taken to be installed).
paramiko_validate(r) ==
    IF r.operation = SSH_COMMAND
    THEN (IF r.command = ""
          THEN raise_error(INVALID_PARAMETERS, "Command parameter is required")
          ELSE NoResult)
    ELSE IF IsUpload(r.operation)
    THEN (IF r.local_path = <<>>
          THEN raise_error(INVALID_PARAMETERS, "Local path parameter is required")
          ELSE IF r.remote_path = ""
          THEN raise_error(INVALID_PARAMETERS, "Remote path parameter is required")
          ELSE IF r.local_path \notin LocalFiles
          THEN raise_error(INVALID_PARAMETERS,
                           "Local file does not exist: " \o PathStr(r.local_path))
          ELSE NoResult)
    ELSE (IF r.remote_path = ""
          THEN raise_error(INVALID_PARAMETERS, "Remote path parameter is required")
          ELSE IF r.local_path = <<>>
          THEN raise_error(INVALID_PARAMETERS, "Local path parameter is required")
          ELSE NoResult)

\* Variant: an MCPException is reported like any other exception.
tool_except_generic(raised) ==
    error_response(EXECUTION_ERROR, raised.error_type \o ": " \o raised.message)

\* tools.py: except MCPException as e / except Exception as e
tool_except(raised) ==
    IF raised.tag = "MCPException"
    THEN error_response(raised.error_type, raised.message)
    ELSE error_response(EXECUTION_ERROR, raised.message)

(***************************************************************************)
(* nornir_init.py: NornirManager.  A Nornir instance is an object on the   *)
(* heap, named by its position there; its value is the host list it was    *)
(* built with.  The configuration on disk is usable, missing, or present   *)
(* but rejected by InitNornir.                                             *)
(***************************************************************************)
NoInstance == 0
NoThread == 0
ConfigPath == "config.yaml"

DiskOk(hosts) == [config |-> "ok", hosts |-> hosts]
DiskMissing == [config |-> "missing", hosts |-> <<>>]
DiskBroken == [config |-> "broken", hosts |-> <<>>]

\* NornirManager.__init__
NewManager == [nornir |-> NoInstance, config_file |-> None, lock |-> NoThread]

FileNotFound ==
    [type |-> "FileNotFoundError",
     args |-> "Nornir configuration file not found. Checked env var "
              \o "NORNIR_CONFIG_FILE and local 'config.yaml'."]
InitFailure == [type |-> "Exception", args |-> "invalid configuration"]
RuntimeError(message) == [type |-> "RuntimeError", args |-> message]

\* NornirManager._locate_config_file
locate_config_file(dk) ==
    IF dk.config = "missing"
    THEN [exception |-> FileNotFound, path |-> None]
    ELSE [exception |-> NoException, path |-> ConfigPath]

\* InitNornir(config_file=...): a new instance holding the hosts on disk
InitNornir(hp, dk) ==
    IF dk.config = "ok"
    THEN [exception |-> NoException, heap |-> Append(hp, dk.hosts),
          instance |-> Len(hp) + 1]
    ELSE [exception |-> IF dk.config = "missing" THEN FileNotFound ELSE InitFailure,
          heap |-> hp, instance |-> NoInstance]

\* what a manager operation leaves behind
Effect(m, hp, n, exc) ==
    [manager |-> m, heap |-> hp, init_calls |-> n, exception |-> exc]

\* NornirManager.get, first half of the locked block: the configuration
\* file is located once and remembered
get_locate(m, hp, dk, n) ==
    IF m.config_file = None
    THEN LET located == locate_config_file(dk)
         IN IF located.exception # NoException
            THEN Effect(m, hp, n, located.exception)
            ELSE Effect([m EXCEPT !.config_file = located.path], hp, n, NoException)
    ELSE Effect(m, hp, n, NoException)

\* Variant: the instance that failed to build is remembered all the same.
get_init_caches_failure(m, hp, dk, n) ==
    LET made == InitNornir(hp, dk)
    IN IF made.exception # NoException
       THEN Effect([m EXCEPT !.nornir = Len(hp) + 1], hp, n + 1,
                   RuntimeError("Failed to initialize Nornir from " \o m.config_file
                                \o ": " \o Str(made.exception)))
       ELSE Effect([m EXCEPT !.nornir = made.instance], made.heap, n + 1, NoException)

\* NornirManager.get, second half of the locked block, entered when
\* self._nornir is None
get_init(m, hp, dk, n) ==
    LET made == InitNornir(hp, dk)
    IN IF made.exception # NoException
       THEN Effect(m, hp, n + 1,
                   RuntimeError("Failed to initialize Nornir from " \o m.config_file
                                \o ": " \o Str(made.exception)))
       ELSE Effect([m EXCEPT !.nornir = made.instance], made.heap, n + 1, NoException)

\* NornirManager.get, the locked block as a whole
get(m, hp, dk, n) ==
    LET located == get_locate(m, hp, dk, n)
    IN IF located.exception # NoException THEN located
       ELSE IF located.manager.nornir # NoInstance THEN located
       ELSE get_init(located.manager, hp, dk, n)

\* Variant: the instance is built, but self._nornir keeps the old one.
reload_keeps_old(m, hp, dk, n) ==
    LET located == locate_config_file(dk)
    IN IF located.exception # NoException
       THEN Effect(m, hp, n, located.exception)
       ELSE LET m1 == [m EXCEPT !.config_file = located.path]
                made == InitNornir(hp, dk)
            IN IF made.exception # NoException
               THEN Effect(m1, hp, n + 1,
                           RuntimeError("Failed to reload Nornir: "
                                        \o Str(made.exception)))
               ELSE Effect(IF m.nornir = NoInstance
                           THEN [m1 EXCEPT !.nornir = made.instance] ELSE m1,
                           made.heap, n + 1, NoException)

\* Variant: the hosts of the current instance are replaced in place.
reload_in_place(m, hp, dk, n) ==
    LET located == locate_config_file(dk)
    IN IF located.exception # NoException
       THEN Effect(m, hp, n, located.exception)
       ELSE LET m1 == [m EXCEPT !.config_file = located.path]
                made == InitNornir(hp, dk)
            IN IF made.exception # NoException
               THEN Effect(m1, hp, n + 1,
                           RuntimeError("Failed to reload Nornir: "
                                        \o Str(made.exception)))
               ELSE IF m.nornir = NoInstance
               THEN Effect([m1 EXCEPT !.nornir = made.instance], made.heap, n + 1,
                           NoException)
               ELSE Effect(m1, [hp EXCEPT ![m.nornir] = dk.hosts], n + 1, NoException)

\* Variant: the current instance is dropped before the new one is built.
reload_clears_first(m, hp, dk, n) ==
    LET located == locate_config_file(dk)
    IN IF located.exception # NoException
       THEN Effect([m EXCEPT !.nornir = NoInstance], hp, n, located.exception)
       ELSE LET m1 == [m EXCEPT !.config_file = located.path, !.nornir = NoInstance]
                made == InitNornir(hp, dk)
            IN IF made.exception # NoException
               THEN Effect(m1, hp, n + 1,
                           RuntimeError("Failed to reload Nornir: "
                                        \o Str(made.exception)))
               ELSE Effect([m1 EXCEPT !.nornir = made.instance], made.heap, n + 1,
                           NoException)

\* NornirManager.reload, the locked block
reload(m, hp, dk, n) ==
    LET located == locate_config_file(dk)
    IN IF located.exception # NoException
       THEN Effect(m, hp, n, located.exception)
       ELSE LET m1 == [m EXCEPT !.config_file = located.path]
                made == InitNornir(hp, dk)
            IN IF made.exception # NoException
               THEN Effect(m1, hp, n + 1,
                           RuntimeError("Failed to reload Nornir: "
                                        \o Str(made.exception)))
               ELSE Effect([m1 EXCEPT !.nornir = made.instance], made.heap, n + 1,
                           NoException)

\* init_nornir of the prototype: the module-level instance, built on first
\* use, nothing wrapped
init_nornir(m, hp, dk, n) ==
    IF m.nornir # NoInstance THEN Effect(m, hp, n, NoException)
    ELSE LET made == InitNornir(hp, dk)
         IN IF made.exception # NoException
            THEN Effect(m, hp, n + 1, made.exception)
            ELSE Effect([m EXCEPT !.nornir = made.instance], made.heap, n + 1,
                        NoException)

(***************************************************************************)
(* runners/registry.py: RunnerRegistry.  _runners is a dict, kept here as  *)
(* the sequence of its <<name, runner>> items in insertion order.          *)
(***************************************************************************)
RECURSIVE Join(_)
\* ", ".join(names)
Join(names) ==
    IF names = <<>> THEN ""
    ELSE IF Len(names) = 1 THEN names[1]
    ELSE names[1] \o ", " \o Join(Tail(names))

\* list(self._runners.keys())
list_runners(rs) == [i \in 1..Len(rs) |-> rs[i][1]]

\* name in self._runners
IsRegistered(rs, name) == \E i \in 1..Len(rs) : rs[i][1] = name

\* self._runners[name]
Lookup(rs, name) == rs[CHOOSE i \in 1..Len(rs) : rs[i][1] = name][2]

ValueError(message) == [type |-> "ValueError", args |-> message]
KeyError(message) == [type |-> "KeyError", args |-> message]

\* what a registry call leaves behind and hands back
Outcome(rs, value, exc) == [runners |-> rs, value |-> value, exception |-> exc]

\* Variant: no check, the assignment replaces the runner of a known name.
RunnerRegistry_register_overwrites(rs, name, runner) ==
    IF IsRegistered(rs, name)
    THEN Outcome([i \in 1..Len(rs) |->
                     IF rs[i][1] = name THEN <<name, runner>> ELSE rs[i]],
                 None, NoException)
    ELSE Outcome(Append(rs, <<name, runner>>), None, NoException)

\* RunnerRegistry.register
RunnerRegistry_register(rs, name, runner) ==
    IF IsRegistered(rs, name)
    THEN Outcome(rs, None, ValueError("Runner '" \o name \o "' already registered."))
    ELSE Outcome(Append(rs, <<name, runner>>), None, NoException)

\* Variant: a missing name yields None, as dict.get does.
RunnerRegistry_get_default(rs, name) ==
    IF ~IsRegistered(rs, name) THEN Outcome(rs, None, NoException)
    ELSE Outcome(rs, Lookup(rs, name), NoException)

\* RunnerRegistry.get
RunnerRegistry_get(rs, name) ==
    IF ~IsRegistered(rs, name)
    THEN LET available == Join(list_runners(rs))
         IN Outcome(rs, None,
                    KeyError("Backend '" \o name \o "' not found. Available backends: "
                             \o (IF available = "" THEN "none" ELSE available)))
    ELSE Outcome(rs, Lookup(rs, name), NoException)

\* RunnerRegistry.reset
RunnerRegistry_reset(rs) == Outcome(<<>>, None, NoException)

(***************************************************************************)
(* State                                                                   *)
(***************************************************************************)
VARIABLES
    pc,                 \* stage of the request in progress
    request,            \* entry point and arguments of the request
    nornir_fetched,     \* the request has obtained the Nornir instance
    runner_built,       \* the request has constructed a runner
    nr,                 \* the Nornir instance the request holds
    targets,            \* hosts the filtered Nornir instance holds
    outcome,            \* MultiResult of every host whose task has ended
    aggregated_result,  \* what nr.run returned
    result,             \* what the runner call returned
    prev_result,        \* what the previous process_results call returned
    calls,              \* process_results calls on this AggregatedResult
    response,           \* what the tool returned
    manager,            \* the NornirManager singleton: _nornir, _config_file, _lock
    heap,               \* the Nornir instances built so far
    disk,               \* the configuration and inventory on disk
    init_calls,         \* calls of InitNornir so far
    threads,            \* position of every thread inside NornirManager
    history,            \* what the threads have done so far
    cls_instance,       \* NornirManager._instance is set
    runners,            \* RunnerRegistry._runners, in insertion order
    registered,         \* register calls accepted since the last reset
    returned,           \* what the last RunnerRegistry call returned
    tasks               \* the per-host SSH task of every target that has started

requestVars == <<pc, request, nornir_fetched, runner_built, nr, targets, outcome,
                 aggregated_result, result, prev_result, calls, response>>
managerVars == <<manager, heap, disk, init_calls>>
threadVars == <<threads, history, cls_instance>>
registryVars == <<runners, registered, returned>>
transferVars == <<tasks>>

vars == <<requestVars, managerVars, threadVars, registryVars, transferVars>>

TOOL == "run_netmiko_command"
NAPALM_TOOL == "run_napalm_getter"
RUNNER == "runner_operation"
GETTER == "run_getter"
FACTS == "get_device_facts"
PARAMIKO_TOOL == "paramiko_tool"
Tools == {TOOL, NAPALM_TOOL, PARAMIKO_TOOL}

HostArgs == {None, "", HostSeq[1], "rX"}
GroupArgs == {None, "core", "gX"}
Commands == {"show version", ""}
Getters == {"facts", "interfaces", "bogus"}

NoRequest ==
    [entry |-> "none", host_name |-> None, group_name |-> None, command |-> "",
     extractor |-> NoExtractor, getter |-> "", operation |-> "",
     local_path |-> <<>>, remote_path |-> ""]

Requests ==
    {[NoRequest EXCEPT !.entry = TOOL, !.host_name = h, !.group_name = g, !.command = c] :
        h \in HostArgs, g \in GroupArgs, c \in Commands}
    \cup {[NoRequest EXCEPT !.entry = NAPALM_TOOL, !.host_name = h, !.group_name = g,
                            !.getter = x] :
        h \in {None, HostSeq[1]}, g \in {None, "core"}, x \in Getters}
    \cup {[NoRequest EXCEPT !.entry = RUNNER, !.host_name = h, !.group_name = g,
                            !.extractor = e] :
        h \in HostArgs, g \in GroupArgs, e \in Extractors}
    \cup {[NoRequest EXCEPT !.entry = GETTER, !.host_name = h, !.getter = g] :
        h \in {None, HostSeq[1]}, g \in Getters}
    \cup {[NoRequest EXCEPT !.entry = FACTS, !.host_name = h] : h \in HostArgs}

Disks == {DiskOk(i) : i \in Inventories} \cup {DiskMissing, DiskBroken}

NoThreads == [t \in {} |-> NoThread]
NoHistory ==
    [reloaded |-> FALSE, last_reload |-> NoInstance, response |-> NoResponse,
     made |-> 0]
NoTasks == [h \in {} |-> None]
NoReturn == [op |-> "none", name |-> "", value |-> None, exception |-> NoException]

\* no request in progress
InitRequest ==
    /\ pc = "Idle"
    /\ request = NoRequest
    /\ nornir_fetched = FALSE
    /\ runner_built = FALSE
    /\ nr = NoInstance
    /\ targets = <<>>
    /\ outcome = NoData
    /\ aggregated_result = <<>>
    /\ result = NoResult
    /\ prev_result = NoResult
    /\ calls = 0
    /\ response = NoResponse
    /\ tasks = NoTasks

\* a manager that has built nothing yet
InitManager ==
    /\ manager = NewManager
    /\ heap = <<>>
    /\ init_calls = 0

\* an empty registry
InitRegistry ==
    /\ runners = <<>>
    /\ registered = <<>>
    /\ returned = NoReturn

Init ==
    /\ InitRequest
    /\ InitManager
    /\ disk \in Disks
    /\ threads = NoThreads
    /\ history = NoHistory
    /\ cls_instance = TRUE
    /\ InitRegistry

\* A caller invokes an entry point.
Invoke(r) ==
    /\ pc = "Idle"
    /\ request' = r
    /\ pc' = IF r.entry \in Tools THEN "Validating" ELSE "Resolving"
    /\ UNCHANGED <<nornir_fetched, runner_built, nr, targets, outcome,
                   aggregated_result, result, prev_result, calls, response>>
    /\ UNCHANGED <<managerVars, threadVars, registryVars, transferVars>>

\* tools.py: validate_target_params, and the error response when it raises
Validate ==
    /\ pc = "Validating"
    /\ IF validate_target_params_raises(request.host_name, request.group_name)
       THEN /\ response' = error_response(INVALID_PARAMETERS, ValueError_message)
            /\ pc' = "Done"
       ELSE /\ response' = response
            /\ pc' = "Resolving"
    /\ UNCHANGED <<request, nornir_fetched, runner_built, nr, targets, outcome,
                   aggregated_result, result, prev_result, calls>>
    /\ UNCHANGED <<managerVars, threadVars, registryVars, transferVars>>

\* The request obtains the Nornir instance: get_nornir() of a tool, before
\* its try block; self.manager.get() of run_on_hosts, inside the try block of
\* run_getter; init_nornir() inside the try block of get_device_facts.
GetNornir ==
    /\ pc = "Resolving"
    /\ ~nornir_fetched
    /\ request.entry = GETTER => request.getter \in supported_getters
    /\ manager.nornir = NoInstance => init_calls < MaxInits
    /\ LET got == IF request.entry = FACTS
                  THEN init_nornir(manager, heap, disk, init_calls)
                  ELSE get(manager, heap, disk, init_calls)
       IN /\ manager' = got.manager
          /\ heap' = got.heap
          /\ init_calls' = got.init_calls
          /\ runner_built' = (request.entry \in {RUNNER, GETTER})
          /\ IF got.exception = NoException
             THEN /\ nornir_fetched' = TRUE
                  /\ nr' = got.manager.nornir
                  /\ UNCHANGED <<pc, result, response>>
             ELSE /\ UNCHANGED <<nornir_fetched, nr>>
                  /\ pc' = IF request.entry \in {GETTER, FACTS} THEN "Done" ELSE "Raised"
                  /\ result' = IF request.entry = GETTER
                               THEN format_error(EXECUTION_ERROR, Str(got.exception))
                               ELSE result
                  /\ response' = IF request.entry = FACTS
                                 THEN error_response(EXECUTION_ERROR, Str(got.exception))
                                 ELSE response
    /\ UNCHANGED <<request, targets, outcome, aggregated_result, prev_result, calls,
                   disk>>
    /\ UNCHANGED <<threadVars, registryVars, transferVars>>

\* run_netmiko_command: NetmikoRunner(nr), run_command -> execute, up to the
\* start of nr.run
ResolveTool ==
    /\ pc = "Resolving"
    /\ request.entry = TOOL
    /\ nornir_fetched
    /\ runner_built' = TRUE
    /\ IF request.command = ""
       THEN /\ result' = format_error(INVALID_PARAMETERS,
                                      "Command string parameter is required")
            /\ pc' = "Enveloping"
            /\ targets' = targets
       ELSE /\ targets' = run_on_hosts(heap[nr], request.host_name, request.group_name)
            /\ pc' = "Dispatching"
            /\ result' = result
    /\ UNCHANGED <<request, nornir_fetched, nr, outcome, aggregated_result, prev_result,
                   calls, response>>
    /\ UNCHANGED <<managerVars, threadVars, registryVars, transferVars>>

\* A runner operation: run_on_hosts from the filter to the start of nr.run
ResolveRunner ==
    /\ pc = "Resolving"
    /\ request.entry = RUNNER
    /\ nornir_fetched
    /\ targets' = run_on_hosts(heap[nr], request.host_name, request.group_name)
    /\ pc' = "Dispatching"
    /\ UNCHANGED <<request, nornir_fetched, runner_built, nr, outcome, aggregated_result,
                   result, prev_result, calls, response>>
    /\ UNCHANGED <<managerVars, threadVars, registryVars, transferVars>>

\* Variant: the getter is checked only after the tasks have run.
ResolveGetter_checks_late ==
    /\ pc = "Resolving"
    /\ request.entry \in {GETTER, NAPALM_TOOL}
    /\ nornir_fetched
    /\ runner_built' = TRUE
    /\ targets' = run_on_hosts(heap[nr], None, None)
    /\ pc' = "Dispatching"
    /\ UNCHANGED <<request, nornir_fetched, nr, outcome, aggregated_result, result,
                   prev_result, calls, response>>
    /\ UNCHANGED <<managerVars, threadVars, registryVars, transferVars>>

\* NapalmRunner.run_getter up to the start of nr.run: the getter is checked
\* first, and hostname travels to the task as a keyword, not to the filter
ResolveGetter ==
    /\ pc = "Resolving"
    /\ request.entry \in {GETTER, NAPALM_TOOL}
    /\ request.entry = NAPALM_TOOL => nornir_fetched
    /\ runner_built' = TRUE
    /\ IF request.getter \notin supported_getters
       THEN /\ result' = format_error("invalid_getter",
                             "Getter '" \o request.getter
                             \o "' is not supported by NapalmRunner.")
            /\ pc' = IF request.entry = NAPALM_TOOL THEN "Enveloping" ELSE "Done"
            /\ targets' = targets
       ELSE /\ nornir_fetched
            /\ targets' = run_on_hosts(heap[nr], None, None)
            /\ pc' = "Dispatching"
            /\ result' = result
    /\ UNCHANGED <<request, nornir_fetched, nr, outcome, aggregated_result, prev_result,
                   calls, response>>
    /\ UNCHANGED <<managerVars, threadVars, registryVars, transferVars>>

\* get_device_facts from the filter to the start of nr.run
ResolveFacts ==
    /\ pc = "Resolving"
    /\ request.entry = FACTS
    /\ nornir_fetched
    /\ LET filtered == run_on_hosts(heap[nr], request.host_name, None)
       IN /\ targets' = filtered
          /\ IF filtered = <<>>
             THEN /\ response' = error_response(NO_HOSTS,
                                     "No hosts found for target: "
                                     \o PyStr(request.host_name))
                  /\ pc' = "Done"
             ELSE /\ response' = response
                  /\ pc' = "Dispatching"
    /\ UNCHANGED <<request, nornir_fetched, runner_built, nr, outcome, aggregated_result,
                   result, prev_result, calls>>
    /\ UNCHANGED <<managerVars, threadVars, registryVars, transferVars>>

\* nr.run: the task of one target ends with one of the given outcomes
RunTaskWith(h, outcomes) ==
    /\ pc = "Dispatching"
    /\ h \in Range(targets)
    /\ h \notin DOMAIN outcome
    /\ \E o \in outcomes : outcome' = Put(outcome, h, o)
    /\ UNCHANGED <<pc, request, nornir_fetched, runner_built, nr, targets,
                   aggregated_result, result, prev_result, calls, response>>
    /\ UNCHANGED <<managerVars, threadVars, registryVars, transferVars>>

\* nr.run: the task of one target ends, whatever the others do
RunTask(h) == RunTaskWith(h, TaskOutcomes)

\* nr.run returns once every target's task has ended
RunReturns ==
    /\ pc = "Dispatching"
    /\ DOMAIN outcome = Range(targets)
    /\ aggregated_result' = [i \in 1..Len(targets) |-> <<targets[i], outcome[targets[i]]>>]
    /\ pc' = "Normalizing"
    /\ UNCHANGED <<request, nornir_fetched, runner_built, nr, targets, outcome,
                   result, prev_result, calls, response>>
    /\ UNCHANGED <<managerVars, threadVars, registryVars, transferVars>>

\* NetmikoRunner.execute / a runner operation: process_results on what
\* nr.run returned; execute turns an exception into an execution_error
Normalize ==
    /\ pc = "Normalizing"
    /\ request.entry \in {TOOL, RUNNER}
    /\ LET processed == process_results(aggregated_result, request.extractor)
       IN result' = IF request.entry = TOOL /\ processed.tag = "Raised"
                    THEN format_error(EXECUTION_ERROR, processed.message)
                    ELSE processed
    /\ aggregated_result' = aggregated_result_after(aggregated_result)
    /\ prev_result' = NoResult
    /\ calls' = 1
    /\ pc' = IF request.entry = TOOL THEN "Enveloping" ELSE "Done"
    /\ UNCHANGED <<request, nornir_fetched, runner_built, nr, targets, outcome,
                   response>>
    /\ UNCHANGED <<managerVars, threadVars, registryVars, transferVars>>

\* process_results called once more on the same AggregatedResult with the
\* same extractor
NormalizeAgain ==
    /\ pc = "Done"
    /\ request.entry = RUNNER
    /\ calls > 0
    /\ calls < MaxCalls
    /\ prev_result' = result
    /\ result' = process_results(aggregated_result, request.extractor)
    /\ aggregated_result' = aggregated_result_after(aggregated_result)
    /\ calls' = calls + 1
    /\ UNCHANGED <<pc, request, nornir_fetched, runner_built, nr, targets,
                   outcome, response>>
    /\ UNCHANGED <<managerVars, threadVars, registryVars, transferVars>>

\* NapalmRunner.run_getter, after nr.run
NormalizeGetter ==
    /\ pc = "Normalizing"
    /\ request.entry \in {GETTER, NAPALM_TOOL}
    /\ result' = run_getter_results(aggregated_result, request.getter, request.host_name)
    /\ pc' = IF request.entry = NAPALM_TOOL THEN "Enveloping" ELSE "Done"
    /\ UNCHANGED <<request, nornir_fetched, runner_built, nr, targets, outcome,
                   aggregated_result, prev_result, calls, response>>
    /\ UNCHANGED <<managerVars, threadVars, registryVars, transferVars>>

\* get_device_facts, the loop after nr.run
NormalizeFacts ==
    /\ pc = "Normalizing"
    /\ request.entry = FACTS
    /\ LET looped == get_device_facts_loop(aggregated_result, NoData)
       IN result' = IF looped.raised
                    THEN Error(EXECUTION_ERROR, looped.message)
                    ELSE PlainDict(looped.data)
    /\ pc' = "Enveloping"
    /\ UNCHANGED <<request, nornir_fetched, runner_built, nr, targets, outcome,
                   aggregated_result, prev_result, calls, response>>
    /\ UNCHANGED <<managerVars, threadVars, registryVars, transferVars>>

\* Variant: a failed host turns the whole response into an error response.
EnvelopeTool_error_on_failure ==
    /\ pc = "Enveloping"
    /\ request.entry = TOOL
    /\ response' = IF /\ result.tag = "Success"
                      /\ \E h \in DOMAIN result.value :
                            <<"error", Leaf(EXECUTION_FAILED)>> \in result.value[h].items
                   THEN error_response(EXECUTION_FAILED, "a host failed")
                   ELSE [NoResponse EXCEPT
                            !.backend = NETMIKO,
                            !.command = request.command,
                            !.target = format_target(request.host_name,
                                                     request.group_name),
                            !.data = result]
    /\ pc' = "Done"
    /\ UNCHANGED <<request, nornir_fetched, runner_built, nr, targets, outcome,
                   aggregated_result, result, prev_result, calls>>
    /\ UNCHANGED <<managerVars, threadVars, registryVars, transferVars>>

\* run_netmiko_command: the dictionary built around what run_command returned
EnvelopeTool ==
    /\ pc = "Enveloping"
    /\ request.entry = TOOL
    /\ response' = [NoResponse EXCEPT
                        !.backend = NETMIKO,
                        !.command = request.command,
                        !.target = format_target(request.host_name, request.group_name),
                        !.data = result]
    /\ pc' = "Done"
    /\ UNCHANGED <<request, nornir_fetched, runner_built, nr, targets, outcome,
                   aggregated_result, result, prev_result, calls>>
    /\ UNCHANGED <<managerVars, threadVars, registryVars, transferVars>>

\* run_napalm_getter: the dictionary built around what run_getter returned
EnvelopeNapalm ==
    /\ pc = "Enveloping"
    /\ request.entry = NAPALM_TOOL
    /\ response' = [NoResponse EXCEPT
                        !.backend = NAPALM,
                        !.getter = request.getter,
                        !.target = format_target(request.host_name, request.group_name),
                        !.data = result]
    /\ pc' = "Done"
    /\ UNCHANGED <<request, nornir_fetched, runner_built, nr, targets, outcome,
                   aggregated_result, result, prev_result, calls>>
    /\ UNCHANGED <<managerVars, threadVars, registryVars, transferVars>>

\* get_device_facts: the dictionary it returns
EnvelopeFacts ==
    /\ pc = "Enveloping"
    /\ request.entry = FACTS
    /\ response' = IF result.tag = "Error"
                   THEN error_response(result.error_type, result.message)
                   ELSE [NoResponse EXCEPT
                            !.target = IF Truthy(request.host_name)
                                       THEN request.host_name ELSE "all",
                            !.facts = result]
    /\ pc' = "Done"
    /\ UNCHANGED <<request, nornir_fetched, runner_built, nr, targets, outcome,
                   aggregated_result, result, prev_result, calls>>
    /\ UNCHANGED <<managerVars, threadVars, registryVars, transferVars>>

\* The caller has its answer, or the exception that escaped; the next
\* request starts afresh.
Return ==
    /\ pc \in {"Done", "Raised"}
    /\ pc' = "Idle"
    /\ request' = NoRequest
    /\ nornir_fetched' = FALSE
    /\ runner_built' = FALSE
    /\ nr' = NoInstance
    /\ targets' = <<>>
    /\ outcome' = NoData
    /\ aggregated_result' = <<>>
    /\ result' = NoResult
    /\ prev_result' = NoResult
    /\ calls' = 0
    /\ response' = NoResponse
    /\ tasks' = NoTasks
    /\ UNCHANGED <<managerVars, threadVars, registryVars>>

Next ==
    \/ \E r \in Requests : Invoke(r)
    \/ Validate
    \/ GetNornir
    \/ ResolveTool
    \/ ResolveRunner
    \/ ResolveGetter
    \/ ResolveFacts
    \/ \E h \in Range(AllHosts) : RunTask(h)
    \/ RunReturns
    \/ Normalize
    \/ NormalizeAgain
    \/ NormalizeGetter
    \/ NormalizeFacts
    \/ EnvelopeTool
    \/ EnvelopeNapalm
    \/ EnvelopeFacts
    \/ Return

Spec == Init /\ [][Next]_vars

(***************************************************************************)
(* Reload while a dispatch is in flight: a runner operation on one side,   *)
(* the reload_nornir_inventory tool and edits of the inventory files on    *)
(* the other.                                                              *)
(***************************************************************************)
ReloadInventories == {AllHosts, SubSeq(AllHosts, 1, 1), <<>>}
ReloadDisks == {DiskOk(i) : i \in ReloadInventories} \cup {DiskMissing, DiskBroken}
ReloadRequests ==
    {[NoRequest EXCEPT !.entry = RUNNER, !.group_name = g] : g \in {None, "core"}}
ReloadOutcomes == {<<Ok(P_output)>>, <<Failed(TimedOut)>>}

\* Somebody edits the configuration or the inventory files.
EditDisk ==
    /\ \E dk \in ReloadDisks \ {disk} : disk' = dk
    /\ UNCHANGED <<manager, heap, init_calls>>
    /\ UNCHANGED <<requestVars, threadVars, registryVars, transferVars>>

\* reload_nornir_inventory: reset_nornir() in a worker thread, the whole of
\* NornirManager.reload under the lock, and the response of the tool
ReloadInventory ==
    /\ manager.lock = NoThread
    /\ init_calls < MaxInits
    /\ LET done == reload(manager, heap, disk, init_calls)
       IN /\ manager' = done.manager
          /\ heap' = done.heap
          /\ init_calls' = done.init_calls
          /\ history' =
                IF done.exception = NoException
                THEN [history EXCEPT
                         !.reloaded = TRUE,
                         !.last_reload = Len(done.heap),
                         !.response = [NoResponse EXCEPT
                                          !.status = "success",
                                          !.message = "Inventory reloaded successfully"]]
                ELSE [history EXCEPT
                         !.response = error_response(RELOAD_FAILED, Str(done.exception))]
    /\ UNCHANGED <<disk, threads, cls_instance>>
    /\ UNCHANGED <<requestVars, registryVars, transferVars>>

InitReload ==
    /\ InitRequest
    /\ InitManager
    /\ disk \in ReloadDisks
    /\ threads = NoThreads
    /\ history = NoHistory
    /\ cls_instance = TRUE
    /\ InitRegistry

NextReload ==
    \/ \E r \in ReloadRequests : Invoke(r)
    \/ GetNornir
    \/ ResolveRunner
    \/ \E h \in Range(AllHosts) : RunTaskWith(h, ReloadOutcomes)
    \/ RunReturns
    \/ Normalize
    \/ Return
    \/ ReloadInventory
    \/ EditDisk

SpecReload == InitReload /\ [][NextReload]_vars

(***************************************************************************)
(* The Paramiko tools: an SSH command or a file transfer on every target,  *)
(* the task of each target advancing one statement at a time while the     *)
(* tasks of the other targets advance too.  Netmiko commands run beside    *)
(* them for comparison.                                                    *)
(***************************************************************************)
TransferFilters == {<<HostSeq[1], None>>, <<None, "core">>, <<None, "edge">>}

ParamikoRequests ==
    {[NoRequest EXCEPT !.entry = PARAMIKO_TOOL, !.operation = SSH_COMMAND,
                       !.host_name = f[1], !.group_name = f[2], !.command = c] :
        f \in {<<HostSeq[1], None>>, <<None, "core">>, <<HostSeq[1], "core">>},
        c \in {"uptime", ""}}
    \cup {[NoRequest EXCEPT !.entry = PARAMIKO_TOOL, !.operation = o,
                            !.group_name = "core", !.local_path = l,
                            !.remote_path = p] :
        o \in {SFTP_UPLOAD, SCP_UPLOAD},
        l \in {<<>>, <<"f.txt">>, <<"nofile.txt">>}, p \in {"", "/tmp/f.txt"}}
    \cup {[NoRequest EXCEPT !.entry = PARAMIKO_TOOL, !.operation = o,
                            !.host_name = f[1], !.group_name = f[2],
                            !.local_path = l, !.remote_path = p] :
        o \in {SFTP_DOWNLOAD, SCP_DOWNLOAD}, f \in TransferFilters,
        l \in {<<>>, <<"downloads", "f.txt">>}, p \in {"", "/etc/hosts"}}
    \cup {[NoRequest EXCEPT !.entry = PARAMIKO_TOOL, !.operation = SFTP_LIST,
                            !.group_name = "core", !.remote_path = "/etc"]}
    \cup {[NoRequest EXCEPT !.entry = TOOL, !.group_name = "core", !.command = c] :
        c \in Commands}

\* A Paramiko tool looks up the method of the runner and calls it: the
\* operation from its first line to the start of nr.run
ResolveParamiko ==
    /\ pc = "Resolving"
    /\ request.entry = PARAMIKO_TOOL
    /\ nornir_fetched
    /\ runner_built' = TRUE
    /\ LET checked == IF request.operation \in Operations
                      THEN paramiko_validate(request)
                      ELSE AttributeError(request.operation)
       IN IF checked.tag \in {"MCPException", "Raised"}
          THEN /\ result' = checked
               /\ pc' = "Enveloping"
               /\ targets' = targets
          ELSE /\ targets' = run_on_hosts(heap[nr], request.host_name, request.group_name)
               /\ pc' = "Dispatching"
               /\ result' = result
    /\ UNCHANGED <<request, nornir_fetched, nr, outcome, aggregated_result, prev_result,
                   calls, response>>
    /\ UNCHANGED <<managerVars, threadVars, registryVars, transferVars>>

\* what a step of the task of host h leaves unchanged
TaskFrame ==
    /\ UNCHANGED <<pc, request, nornir_fetched, runner_built, nr, targets,
                   aggregated_result, result, prev_result, calls, response>>
    /\ UNCHANGED <<managerVars, threadVars, registryVars>>

\* nr.run starts the task of one target: the client object is created
TaskStart(h) ==
    /\ pc = "Dispatching"
    /\ request.entry = PARAMIKO_TOOL
    /\ h \in Range(targets)
    /\ h \notin DOMAIN tasks
    /\ tasks' = Put(tasks, h, NewTask)
    /\ UNCHANGED outcome
    /\ TaskFrame

TaskConnect(h) ==
    /\ h \in DOMAIN tasks
    /\ tasks[h].pc = "connect"
    /\ \E exc \in {NoException} \cup ConnectErrors :
          tasks' = [tasks EXCEPT ![h] = connect(request.operation, @, exc)]
    /\ UNCHANGED outcome
    /\ TaskFrame

TaskOpenChannel(h) ==
    /\ h \in DOMAIN tasks
    /\ tasks[h].pc = "open_channel"
    /\ \E exc \in {NoException} \cup ChannelErrors :
          tasks' = [tasks EXCEPT ![h] = open_channel(request.operation, @, exc)]
    /\ UNCHANGED outcome
    /\ TaskFrame

TaskBeginTransfer(h) ==
    /\ h \in DOMAIN tasks
    /\ tasks[h].pc = "transfer"
    /\ tasks' = [tasks EXCEPT ![h] =
                    begin_transfer(request.operation, @,
                                   IF IsDownload(request.operation)
                                   THEN local_file_path(request.local_path,
                                                        hostname_of(h), targets)
                                   ELSE request.local_path)]
    /\ UNCHANGED outcome
    /\ TaskFrame

TaskEndTransfer(h) ==
    /\ h \in DOMAIN tasks
    /\ tasks[h].pc = "transferring"
    /\ \E exc \in {NoException} \cup TransferErrors(request.operation) :
       \E exit_status \in IF request.operation = SSH_COMMAND /\ exc = NoException
                          THEN {"0", "1"} ELSE {"0"} :
          tasks' = [tasks EXCEPT ![h] =
                       end_transfer(request.operation, @, exc,
                                    task_success(request.operation, request,
                                                 hostname_of(h), tasks[h].path,
                                                 exit_status))]
    /\ UNCHANGED outcome
    /\ TaskFrame

TaskCloseChannel(h) ==
    /\ h \in DOMAIN tasks
    /\ tasks[h].pc \in {"close_channel", "release_channel"}
    /\ tasks' = [tasks EXCEPT ![h] =
                    IF @.pc = "close_channel"
                    THEN close_channel(@, task_success(request.operation, request,
                                                       hostname_of(h), @.path, "0"))
                    ELSE release_channel(@)]
    /\ UNCHANGED outcome
    /\ TaskFrame

\* finally: ssh_client.close(); the task returns and nornir records its
\* return value as the result of the host
TaskReleaseConnection(h) ==
    /\ h \in DOMAIN tasks
    /\ tasks[h].pc = "release_connection"
    /\ tasks' = [tasks EXCEPT ![h] = release_connection(@)]
    /\ outcome' = Put(outcome, h, <<Ok(tasks[h].returns)>>)
    /\ TaskFrame

\* the netmiko_send_command task of one target ends
NetmikoTask(h) ==
    /\ request.entry = TOOL
    /\ RunTaskWith(h, ReloadOutcomes)

\* A ParamikoRunner operation after nr.run: process_results with the
\* pass-through extractor, and raise_error for whatever was raised
NormalizeParamiko ==
    /\ pc = "Normalizing"
    /\ request.entry = PARAMIKO_TOOL
    /\ LET processed == process_results(aggregated_result, IdentityExtractor)
       IN result' = IF processed.tag = "Raised"
                    THEN raise_error(EXECUTION_ERROR, processed.message)
                    ELSE processed
    /\ aggregated_result' = aggregated_result_after(aggregated_result)
    /\ prev_result' = NoResult
    /\ calls' = 1
    /\ pc' = "Enveloping"
    /\ UNCHANGED <<request, nornir_fetched, runner_built, nr, targets, outcome,
                   response>>
    /\ UNCHANGED <<managerVars, threadVars, registryVars, transferVars>>

\* A Paramiko tool: the dictionary built around what the runner returned, or
\* the error response for what it raised
EnvelopeParamiko ==
    /\ pc = "Enveloping"
    /\ request.entry = PARAMIKO_TOOL
    /\ response' =
          IF result.tag \in {"MCPException", "Raised"} THEN tool_except(result)
          ELSE IF request.operation = SSH_COMMAND
          THEN [NoResponse EXCEPT
                   !.backend = PARAMIKO,
                   !.command = request.command,
                   !.target = format_target(request.host_name, request.group_name),
                   !.data = result]
          ELSE [NoResponse EXCEPT
                   !.backend = PARAMIKO,
                   !.local_path = PathStr(request.local_path),
                   !.remote_path = request.remote_path,
                   !.target = format_target(request.host_name, request.group_name),
                   !.data = result]
    /\ pc' = "Done"
    /\ UNCHANGED <<request, nornir_fetched, runner_built, nr, targets, outcome,
                   aggregated_result, result, prev_result, calls>>
    /\ UNCHANGED <<managerVars, threadVars, registryVars, transferVars>>

InitParamiko ==
    /\ InitRequest
    /\ InitManager
    /\ disk = DiskOk(AllHosts)
    /\ threads = NoThreads
    /\ history = NoHistory
    /\ cls_instance = TRUE
    /\ InitRegistry

NextParamiko ==
    \/ \E r \in ParamikoRequests : Invoke(r)
    \/ Validate
    \/ GetNornir
    \/ ResolveTool
    \/ ResolveParamiko
    \/ \E h \in Range(AllHosts) : TaskStart(h)
    \/ \E h \in Range(AllHosts) : TaskConnect(h)
    \/ \E h \in Range(AllHosts) : TaskOpenChannel(h)
    \/ \E h \in Range(AllHosts) : TaskBeginTransfer(h)
    \/ \E h \in Range(AllHosts) : TaskEndTransfer(h)
    \/ \E h \in Range(AllHosts) : TaskCloseChannel(h)
    \/ \E h \in Range(AllHosts) : TaskReleaseConnection(h)
    \/ \E h \in Range(AllHosts) : NetmikoTask(h)
    \/ RunReturns
    \/ Normalize
    \/ NormalizeParamiko
    \/ EnvelopeTool
    \/ EnvelopeParamiko
    \/ Return

SpecParamiko == InitParamiko /\ [][NextParamiko]_vars

(***************************************************************************)
(* Threads inside NornirManager: each calls get or reload, waits for the   *)
(* lock, runs the locked block, leaves it, and returns or raises.          *)
(***************************************************************************)
Threads == 1..NumThreads
ManagerDisks == {DiskOk(AllHosts), DiskMissing, DiskBroken}
ThreadOps == {"instance", "get", "reload"}

IdleThread == [op |-> "none", pc |-> "idle", got |-> NoInstance, floor |-> NoInstance]

\* Variant: the lock is not waited for.
CanAcquire_unlocked(m) == TRUE

\* with self._lock: the lock is free
CanAcquire(m) == m.lock = NoThread

\* A thread calls NornirManager.instance(), or get() or reload() of the
\* singleton once there is one; it notes the instance of the last reload
\* that had taken effect by then.
Call(t, op) ==
    /\ threads[t].pc = "idle"
    /\ history.made < MaxThreadCalls
    /\ op \in {"get", "reload"} => cls_instance
    /\ threads' = [threads EXCEPT ![t] = [op |-> op, pc |-> "waiting",
                                          got |-> NoInstance,
                                          floor |-> history.last_reload]]
    /\ history' = [history EXCEPT !.made = @ + 1]
    /\ UNCHANGED cls_instance
    /\ UNCHANGED <<requestVars, managerVars, registryVars, transferVars>>

\* with self._lock: entered
Acquire(t) ==
    /\ threads[t].pc = "waiting"
    /\ CanAcquire(manager)
    /\ manager' = [manager EXCEPT !.lock = t]
    /\ threads' = [threads EXCEPT ![t].pc = "locked"]
    /\ UNCHANGED <<heap, disk, init_calls, history, cls_instance>>
    /\ UNCHANGED <<requestVars, registryVars, transferVars>>

\* instance: if cls._instance is None: cls._instance = cls(); __init__
\* finds no instance and sets both fields to None
InstanceLocked(t) ==
    /\ threads[t].pc = "locked"
    /\ threads[t].op = "instance"
    /\ cls_instance' = TRUE
    /\ manager' = IF cls_instance THEN manager
                  ELSE [NewManager EXCEPT !.lock = manager.lock]
    /\ threads' = [threads EXCEPT ![t].pc = "releasing"]
    /\ UNCHANGED <<heap, disk, init_calls, history>>
    /\ UNCHANGED <<requestVars, registryVars, transferVars>>

\* get: the configuration file is located, and self._nornir is tested
GetLocate(t) ==
    /\ threads[t].pc = "locked"
    /\ threads[t].op = "get"
    /\ LET located == get_locate(manager, heap, disk, init_calls)
       IN /\ manager' = located.manager
          /\ threads' = [threads EXCEPT ![t].pc =
                            IF located.exception # NoException THEN "raising"
                            ELSE IF located.manager.nornir = NoInstance
                                 THEN "initialising" ELSE "releasing"]
    /\ UNCHANGED <<heap, disk, init_calls, history, cls_instance>>
    /\ UNCHANGED <<requestVars, registryVars, transferVars>>

\* get: self._nornir = InitNornir(...)
GetInit(t) ==
    /\ threads[t].pc = "initialising"
    /\ LET made == get_init(manager, heap, disk, init_calls)
       IN /\ manager' = made.manager
          /\ heap' = made.heap
          /\ init_calls' = made.init_calls
          /\ threads' = [threads EXCEPT ![t].pc =
                            IF made.exception # NoException THEN "raising"
                            ELSE "releasing"]
    /\ UNCHANGED <<disk, history, cls_instance>>
    /\ UNCHANGED <<requestVars, registryVars, transferVars>>

\* reload: the locked block
ReloadLocked(t) ==
    /\ threads[t].pc = "locked"
    /\ threads[t].op = "reload"
    /\ LET done == reload(manager, heap, disk, init_calls)
       IN /\ manager' = done.manager
          /\ heap' = done.heap
          /\ init_calls' = done.init_calls
          /\ threads' = [threads EXCEPT ![t].pc =
                            IF done.exception # NoException THEN "raising"
                            ELSE "releasing"]
          /\ history' = IF done.exception = NoException
                        THEN [history EXCEPT !.reloaded = TRUE,
                                             !.last_reload = Len(done.heap)]
                        ELSE history
    /\ UNCHANGED <<disk, cls_instance>>
    /\ UNCHANGED <<requestVars, registryVars, transferVars>>

\* Variant: an exception leaves the block with the lock still held.
Release_on_return(t) ==
    /\ threads[t].pc \in {"releasing", "raising"}
    /\ manager' = IF threads[t].pc = "raising" THEN manager
                  ELSE [manager EXCEPT !.lock = NoThread]
    /\ threads' = [threads EXCEPT ![t].pc =
                      IF threads[t].pc = "raising" THEN "raised"
                      ELSE IF threads[t].op = "reload" THEN "returned" ELSE "returning"]
    /\ UNCHANGED <<heap, disk, init_calls, history, cls_instance>>
    /\ UNCHANGED <<requestVars, registryVars, transferVars>>

\* the with block is left, normally or by an exception
Release(t) ==
    /\ threads[t].pc \in {"releasing", "raising"}
    /\ manager' = [manager EXCEPT !.lock = NoThread]
    /\ threads' = [threads EXCEPT ![t].pc =
                      IF threads[t].pc = "raising" THEN "raised"
                      ELSE IF threads[t].op = "reload" THEN "returned" ELSE "returning"]
    /\ UNCHANGED <<heap, disk, init_calls, history, cls_instance>>
    /\ UNCHANGED <<requestVars, registryVars, transferVars>>

\* instance: return cls._instance
InstanceReturn(t) ==
    /\ threads[t].pc = "returning"
    /\ threads[t].op = "instance"
    /\ threads' = [threads EXCEPT ![t].pc = "returned"]
    /\ UNCHANGED <<history, cls_instance>>
    /\ UNCHANGED <<requestVars, managerVars, registryVars, transferVars>>

\* get: return self._nornir, read after the lock is released
GetReturn(t) ==
    /\ threads[t].pc = "returning"
    /\ threads[t].op = "get"
    /\ threads' = [threads EXCEPT ![t].pc = "returned", ![t].got = manager.nornir]
    /\ UNCHANGED <<history, cls_instance>>
    /\ UNCHANGED <<requestVars, managerVars, registryVars, transferVars>>

\* The caller has what the call returned or raised.
Finish(t) ==
    /\ threads[t].pc \in {"returned", "raised"}
    /\ threads' = [threads EXCEPT ![t] = IdleThread]
    /\ UNCHANGED <<history, cls_instance>>
    /\ UNCHANGED <<requestVars, managerVars, registryVars, transferVars>>

InitThreads ==
    /\ InitRequest
    /\ InitManager
    /\ disk \in ManagerDisks
    /\ threads = [t \in Threads |-> IdleThread]
    /\ history = NoHistory
    /\ cls_instance = FALSE
    /\ InitRegistry

NextThreads ==
    \/ \E t \in Threads : \E op \in ThreadOps : Call(t, op)
    \/ \E t \in Threads : Acquire(t)
    \/ \E t \in Threads : InstanceLocked(t)
    \/ \E t \in Threads : InstanceReturn(t)
    \/ \E t \in Threads : GetLocate(t)
    \/ \E t \in Threads : GetInit(t)
    \/ \E t \in Threads : ReloadLocked(t)
    \/ \E t \in Threads : Release(t)
    \/ \E t \in Threads : GetReturn(t)
    \/ \E t \in Threads : Finish(t)

SpecThreads == InitThreads /\ [][NextThreads]_vars

\* every thread that can take a step of its call eventually takes one
ThreadStep(t) ==
    \/ Acquire(t)
    \/ InstanceLocked(t)
    \/ GetLocate(t)
    \/ GetInit(t)
    \/ ReloadLocked(t)
    \/ Release(t)
    \/ InstanceReturn(t)
    \/ GetReturn(t)
    \/ Finish(t)

SpecThreadsFair == SpecThreads /\ \A t \in Threads : WF_vars(ThreadStep(t))

(***************************************************************************)
(* Calls on one RunnerRegistry.                                            *)
(***************************************************************************)
BackendNames == {"napalm", "netmiko"}
LookupNames == BackendNames \cup {"unknown"}
RunnerObjects == {"runner_a", "runner_b"}

\* registry.register(name, runner)
Register(name, runner) ==
    /\ Len(registered) < MaxRegisters
    /\ LET out == RunnerRegistry_register(runners, name, runner)
       IN /\ runners' = out.runners
          /\ returned' = [op |-> "register", name |-> name, value |-> out.value,
                          exception |-> out.exception]
    /\ registered' = Append(registered, <<name, runner>>)
    /\ UNCHANGED <<requestVars, managerVars, threadVars, transferVars>>

\* registry.get(name)
Get(name) ==
    /\ LET out == RunnerRegistry_get(runners, name)
       IN /\ runners' = out.runners
          /\ returned' = [op |-> "get", name |-> name, value |-> out.value,
                          exception |-> out.exception]
    /\ UNCHANGED registered
    /\ UNCHANGED <<requestVars, managerVars, threadVars, transferVars>>

\* registry.list_runners()
ListRunners ==
    /\ returned' = [op |-> "list_runners", name |-> "",
                    value |-> Join(list_runners(runners)), exception |-> NoException]
    /\ UNCHANGED <<runners, registered>>
    /\ UNCHANGED <<requestVars, managerVars, threadVars, transferVars>>

\* registry.reset()
Reset ==
    /\ LET out == RunnerRegistry_reset(runners)
       IN /\ runners' = out.runners
          /\ returned' = [op |-> "reset", name |-> "", value |-> out.value,
                          exception |-> out.exception]
    /\ registered' = <<>>
    /\ UNCHANGED <<requestVars, managerVars, threadVars, transferVars>>

InitCalls ==
    /\ InitRequest
    /\ InitManager
    /\ disk = DiskOk(AllHosts)
    /\ threads = NoThreads
    /\ history = NoHistory
    /\ cls_instance = TRUE
    /\ InitRegistry

NextCalls ==
    \/ \E name \in BackendNames : \E runner \in RunnerObjects : Register(name, runner)
    \/ \E name \in LookupNames : Get(name)
    \/ ListRunners
    \/ Reset

SpecRegistry == InitCalls /\ [][NextCalls]_vars

(***************************************************************************)
(* Properties                                                              *)
(***************************************************************************)
BothFilters == Truthy(request.host_name) /\ Truthy(request.group_name)

\* process_results has run on what nr.run returned
Normalized ==
    /\ request.entry \in {TOOL, RUNNER}
    /\ calls >= 1
    /\ pc \in {"Enveloping", "Done"}

\* the task of a target failed: an exception (a timeout among them) in its
\* own record, or no record at all
TaskFailed(multi_result) == Len(multi_result) = 0 \/ multi_result[1].failed

IsExecutionFailed(v) ==
    /\ IsDict(v)
    /\ <<"error", Leaf(EXECUTION_FAILED)>> \in v.items

\* the value under name of a keyed payload that holds it, else the payload
SingleKeyExpected(payload, name) ==
    IF IsDict(payload) /\ \E it \in payload.items : it[1] = name
    THEN (CHOOSE it \in payload.items : it[1] = name)[2]
    ELSE payload

C2_OneEntryPerTarget ==
    (Normalized /\ targets # <<>>) =>
        LET failed == {h \in Range(targets) : TaskFailed(outcome[h])}
            data == result.value
        IN /\ result.tag = "Success"
           /\ DOMAIN data = Range(targets)
           /\ Cardinality(DOMAIN data) = Len(targets)
           /\ {h \in DOMAIN data : IsExecutionFailed(data[h])} = failed
           /\ Cardinality({h \in DOMAIN data : IsExecutionFailed(data[h])})
                = Cardinality(failed)
           /\ \A h \in Range(targets) \ failed :
                data[h] = IF request.extractor.kind = "key"
                          THEN extract_single_key(outcome[h][1].result,
                                                  request.extractor.key)
                          ELSE outcome[h][1].result

C2_Witness ==
    /\ Normalized
    /\ Len(targets) = NumHosts
    /\ Cardinality({h \in Range(targets) : TaskFailed(outcome[h])}) = 2
    /\ \E h \in Range(targets) : outcome[h] = <<>>
    /\ \E h \in Range(targets) : Len(outcome[h]) > 0 /\ outcome[h][1].failed
    /\ Cardinality(DOMAIN result.value) = NumHosts

\* the AggregatedResult with the outcome of its i-th host replaced
WithOutcome(agg, i, multi_result) ==
    [j \in 1..Len(agg) |-> IF j = i THEN <<agg[j][1], multi_result>> ELSE agg[j]]

\* C3: failure isolation.  While tasks are running, the task of every
\* target that has not ended can still end, whatever happened to the
\* others; nr.run returns the outcome of every target; and a dispatch that
\* differs from this one only in the outcome of one target (success,
\* exception, timeout or no record) is normalized to a result whose entry
\* for every other target is the same.
C3_FailureIsolation ==
    /\ pc = "Dispatching" =>
          \A h \in Range(targets) \ DOMAIN outcome : ENABLED RunTask(h)
    /\ pc = "Normalizing" =>
          /\ DOMAIN outcome = Range(targets)
          /\ \A i \in 1..Len(targets) :
                aggregated_result[i] = <<targets[i], outcome[targets[i]]>>
    /\ (Normalized /\ targets # <<>>) =>
          \A i \in 1..Len(aggregated_result) : \A other \in TaskOutcomes :
             LET there == process_results(
                              WithOutcome(aggregated_result, i, other),
                              request.extractor)
             IN /\ result.tag = "Success"
                /\ there.tag = "Success"
                /\ DOMAIN there.value = DOMAIN result.value
                /\ \A g \in DOMAIN result.value \ {aggregated_result[i][1]} :
                      there.value[g] = result.value[g]

C3_Witness ==
    /\ Normalized
    /\ Len(targets) = NumHosts
    /\ outcome[targets[1]] = <<Failed(TimedOut)>>
    /\ outcome[targets[2]] = <<>>
    /\ \E h \in Range(targets) :
          /\ ~TaskFailed(outcome[h])
          /\ result.value[h] = outcome[h][1].result

C5_ToolNoHostsTopLevel ==
    (pc = "Done" /\ request.entry = TOOL /\ calls >= 1 /\ targets = <<>>) =>
        /\ response.error = NO_HOSTS
        /\ response.data = AbsentData

\* C6: a target whose task left no record gets, at its own key, the
\* execution_failed entry with the message "No task results available for
\* this host"; process_results does not raise, drops no target and stores
\* the entry of every other target.
C6_NoRecordIsPerHostFailure ==
    (Normalized /\ \E h \in Range(targets) : outcome[h] = <<>>) =>
        /\ result.tag = "Success"
        /\ DOMAIN result.value = Range(targets)
        /\ \A h \in Range(targets) :
              outcome[h] = <<>> =>
                 result.value[h]
                    = Dict({<<"error", Leaf("execution_failed")>>,
                            <<"message",
                              Leaf("No task results available for this host")>>})
        /\ \A h \in Range(targets) :
              (outcome[h] # <<>> /\ ~outcome[h][1].failed) =>
                 result.value[h]
                    = IF request.extractor.kind = "key"
                      THEN SingleKeyExpected(outcome[h][1].result,
                                             request.extractor.key)
                      ELSE outcome[h][1].result

C6_Witness ==
    /\ Normalized
    /\ Len(targets) = NumHosts
    /\ outcome[targets[1]] = <<>>
    /\ outcome[targets[2]] = <<Ok(P_output)>>
    /\ result.tag = "Success"
    /\ result.value[targets[2]] = P_output
    /\ IsExecutionFailed(result.value[targets[1]])

\* C7: a target whose task raised gets the entry execution_failed with the
\* message of that exception, and process_results returns normally.
C7_ExceptionCaptured ==
    Normalized =>
        \A h \in Range(targets) :
            (outcome[h] # <<>> /\ outcome[h][1].failed) =>
                /\ result.tag = "Success"
                /\ result.value[h]
                     = Dict({<<"error", Leaf("execution_failed")>>,
                             <<"message", Leaf(outcome[h][1].exception.args)>>})

C7_Witness ==
    /\ Normalized
    /\ pc = "Done"
    /\ request.entry = TOOL
    /\ \E h \in Range(targets) :
          /\ outcome[h] = <<Failed(ConnectionRefused)>>
          /\ result.value[h]
               = Dict({<<"error", Leaf("execution_failed")>>,
                       <<"message", Leaf("Connection refused")>>})
    /\ response.data = result

\* C8: without an extractor, the entry of every successful target is the
\* raw payload of its task, unchanged.
C8_PassthroughWithoutExtractor ==
    (Normalized /\ request.extractor = NoExtractor /\ targets # <<>>) =>
        /\ result.tag = "Success"
        /\ \A h \in Range(targets) :
              ~TaskFailed(outcome[h]) => result.value[h] = outcome[h][1].result

C8_Witness ==
    /\ Normalized
    /\ request.extractor = NoExtractor
    /\ \E h \in Range(targets) :
          outcome[h] = <<Ok(P_facts)>> /\ result.value[h] = P_facts
    /\ \E h \in Range(targets) :
          outcome[h] = <<Ok(P_output)>> /\ result.value[h] = P_output

C11_TargetDescription ==
    (pc = "Done" /\ request.entry \in Tools /\ response.backend # Absent) =>
        response.target
          = IF request.host_name \notin {None, ""} THEN request.host_name
            ELSE IF request.group_name \notin {None, ""}
                 THEN "group:" \o request.group_name
                 ELSE "all"

C11_Witness ==
    /\ pc = "Done"
    /\ request.entry = TOOL
    /\ request.host_name = ""
    /\ request.group_name = "core"
    /\ response.backend = NETMIKO
    /\ response.target = "group:core"

\* C12: in the response of a tool, a top-level error is there only when
\* nothing was dispatched (no target resolved, no task run, no result
\* normalized) and then there is no data; a target whose task failed leaves
\* no top-level error, and its failure is the entry under its own name
\* inside data, while no other target's entry is a failure.
C12_TopLevelErrorOnlyBeforeDispatch ==
    (pc = "Done" /\ request.entry \in Tools) =>
        /\ response.error # Absent =>
              /\ targets = <<>>
              /\ outcome = NoData
              /\ aggregated_result = <<>>
              /\ calls = 0
              /\ response.data = AbsentData
        /\ outcome # NoData => response.error = Absent
        /\ (request.entry = TOOL /\ outcome # NoData) =>
              /\ response.data.tag = "Success"
              /\ \A h \in Range(targets) :
                    TaskFailed(outcome[h]) <=> IsExecutionFailed(response.data.value[h])
        /\ (request.entry = NAPALM_TOOL /\ response.data.tag = "dict") =>
              \A h \in Range(targets) :
                 outcome[h][1].failed
                    <=> response.data.value[h]
                          = ErrorObject("napalm_failed", Str(outcome[h][1].exception))

C12_Witness ==
    /\ pc = "Done"
    /\ request.entry = TOOL
    /\ Len(targets) = NumHosts
    /\ outcome[targets[1]] = <<Failed(ConnectionRefused)>>
    /\ outcome[targets[2]] = <<Ok(P_output)>>
    /\ response.error = Absent
    /\ IsExecutionFailed(response.data.value[targets[1]])
    /\ response.data.value[targets[2]] = P_output

\* the request is one a tool rejects: both filters, an unsupported getter,
\* or an empty command
Rejected ==
    /\ request.entry \in Tools
    /\ \/ BothFilters
       \/ request.entry = NAPALM_TOOL /\ request.getter \notin supported_getters
       \/ request.entry = TOOL /\ request.command = ""

\* the stage that may follow a stage
StageFollows(from, to) ==
    \/ from = "Idle" /\ to = "Validating"
    \/ from = "Validating" /\ to \in {"Resolving", "Done"}
    \/ from = "Resolving" /\ to \in {"Dispatching", "Enveloping", "Raised"}
    \/ from = "Dispatching" /\ to = "Normalizing"
    \/ from = "Normalizing" /\ to = "Enveloping"
    \/ from = "Enveloping" /\ to = "Done"
    \/ from \in {"Done", "Raised"} /\ to = "Idle"

C14_InvalidGetterTopLevel ==
    (/\ pc = "Done"
     /\ request.entry = NAPALM_TOOL
     /\ ~BothFilters
     /\ request.getter \notin supported_getters) =>
        /\ outcome = NoData
        /\ response.error = "invalid_getter"
        /\ response.data = AbsentData

\* C15 as stated: a tool call never raises to its caller; on every path it
\* ends with a response that carries either an error and a message or a
\* backend, a target and data.
C15_ToolNeverRaises ==
    request.entry \in Tools =>
        /\ pc # "Raised"
        /\ pc = "Done" =>
              \/ response.error # Absent /\ response.message # Absent
              \/ /\ response.backend # Absent
                 /\ response.target # Absent
                 /\ response.data # AbsentData


\* the targets a dispatch on instance i with these filters runs on
TargetsOf(i, host_name, group_name) == run_on_hosts(heap[i], host_name, group_name)

\* C16: snapshot isolation.  No step changes a Nornir instance that exists
\* (a reload adds a new one and points the manager at it); so from the start
\* of the dispatch to its result, whatever reloads complete meanwhile, the
\* targets of the dispatch are those of the instance it obtained, every one
\* of them and no other gets a task, and the result reports exactly them.
C16_SnapshotIsolation ==
    /\ [][/\ Len(heap') >= Len(heap)
          /\ \A i \in 1..Len(heap) : heap'[i] = heap[i]
          /\ (pc \in {"Dispatching", "Normalizing"} \/ (pc = "Done" /\ calls >= 1)) =>
                (nr' = nr \/ pc' = "Idle")]_vars
    /\ [](pc \in {"Dispatching", "Normalizing"} \/ (pc = "Done" /\ calls >= 1) =>
            /\ nr \in 1..Len(heap)
            /\ targets = TargetsOf(nr, request.host_name, request.group_name)
            /\ DOMAIN outcome \subseteq Range(targets)
            /\ pc = "Normalizing" =>
                  /\ DOMAIN outcome = Range(targets)
                  /\ Len(aggregated_result) = Len(targets)
                  /\ \A i \in 1..Len(targets) : aggregated_result[i][1] = targets[i]
            /\ (pc = "Done" /\ targets # <<>>) =>
                  DOMAIN result.value
                     = Range(TargetsOf(nr, request.host_name, request.group_name)))

C16_Witness ==
    /\ pc = "Done"
    /\ calls >= 1
    /\ history.reloaded
    /\ manager.nornir # nr
    /\ heap[nr] = AllHosts
    /\ heap[manager.nornir] = SubSeq(AllHosts, 1, 1)
    /\ DOMAIN result.value = Range(AllHosts)


\* C17: as long as no reload has taken effect, InitNornir has built at most
\* one instance, however many threads call get at once; every get that
\* returned has returned that one instance; and the manager holds it.
C17_InitialisedOnce ==
    ~history.reloaded =>
        /\ Len(heap) <= 1
        /\ manager.nornir \in {NoInstance, 1}
        /\ \A t \in Threads :
              (threads[t].op = "get" /\ threads[t].pc = "returned") =>
                 /\ threads[t].got = 1
                 /\ Len(heap) = 1
                 /\ manager.nornir = 1
                 /\ \A u \in Threads :
                       (threads[u].op = "get" /\ threads[u].pc = "returned") =>
                          threads[u].got = threads[t].got

C17_Witness ==
    /\ ~history.reloaded
    /\ init_calls = 1
    /\ \A t \in Threads :
          threads[t].op = "get" /\ threads[t].pc = "returned" /\ threads[t].got = 1

\* C18: a reload that succeeds calls InitNornir once more, and the instance
\* that call built, holding the hosts now on disk, is the one the manager
\* holds from then on; so a get called after a reload took effect returns
\* the instance of the most recent reload, never an older one.
C18_GetAfterReload ==
    /\ [][history'.last_reload # history.last_reload =>
             /\ init_calls' = init_calls + 1
             /\ Len(heap') = Len(heap) + 1
             /\ history'.last_reload = Len(heap')
             /\ heap'[Len(heap')] = disk.hosts]_vars
    /\ [](history.reloaded =>
             /\ manager.nornir = history.last_reload
             /\ \A t \in Threads :
                   (/\ threads[t].op = "get"
                    /\ threads[t].pc = "returned"
                    /\ threads[t].floor # NoInstance) =>
                      /\ threads[t].got >= threads[t].floor
                      /\ threads[t].got <= history.last_reload)

C18_Witness ==
    /\ history.reloaded
    /\ history.last_reload = 2
    /\ \E t \in Threads :
          /\ threads[t].op = "get"
          /\ threads[t].pc = "returned"
          /\ threads[t].floor = 2
          /\ threads[t].got = 2


\* the runner of the first register call for name since the last reset
FirstRegistered(name) ==
    registered[CHOOSE i \in 1..Len(registered) :
                  /\ registered[i][1] = name
                  /\ \A j \in 1..(i - 1) : registered[j][1] # name][2]

\* C19: a register call on a name that is already registered raises
\* ValueError and leaves the registry as it was, a register call on a new
\* name adds it; so whatever register calls were made since the last reset,
\* get(name) returns the runner of the first of them for that name.
C19_FirstRegistrationWins ==
    /\ [][Len(registered') > Len(registered) =>
             LET call == registered'[Len(registered')]
             IN IF \E i \in 1..Len(registered) : registered[i][1] = call[1]
                THEN /\ returned'.exception.type = "ValueError"
                     /\ runners' = runners
                ELSE /\ returned'.exception = NoException
                     /\ runners' = Append(runners, call)]_vars
    /\ [](\A name \in LookupNames :
             (\E i \in 1..Len(registered) : registered[i][1] = name) =>
                /\ RunnerRegistry_get(runners, name).exception = NoException
                /\ RunnerRegistry_get(runners, name).value = FirstRegistered(name))
    /\ [][(returned'.op = "get" /\ returned'.exception = NoException) =>
             returned'.value = FirstRegistered(returned'.name)]_vars

C19_Witness ==
    /\ Len(registered) = MaxRegisters
    /\ registered[1] = <<"napalm", "runner_a">>
    /\ registered[2] = <<"napalm", "runner_b">>
    /\ returned.op = "register"
    /\ returned.exception.type = "ValueError"
    /\ runners = <<<<"napalm", "runner_a">>>>

\* C20: get(name) returns a runner exactly when a register call for name
\* was made since the last reset, and then that runner; for any other name
\* it raises the not-found KeyError; and in both cases the registry is left
\* as it was.
C20_GetExactlyWhenRegistered ==
    /\ [](\A name \in LookupNames :
             LET out == RunnerRegistry_get(runners, name)
             IN /\ out.runners = runners
                /\ IF \E i \in 1..Len(registered) : registered[i][1] = name
                   THEN /\ out.exception = NoException
                        /\ out.value \in RunnerObjects
                   ELSE /\ out.exception.type = "KeyError"
                        /\ out.value = None)
    /\ [][(returned'.op = "get") =>
             /\ runners' = runners
             /\ registered' = registered
             /\ IF \E i \in 1..Len(registered) : registered[i][1] = returned'.name
                THEN /\ returned'.exception = NoException
                     /\ returned'.value \in RunnerObjects
                ELSE /\ returned'.exception.type = "KeyError"
                     /\ returned'.value = None]_vars

C20_Witness ==
    /\ returned.op = "get"
    /\ returned.name = "napalm"
    /\ returned.exception.type = "KeyError"
    /\ returned.exception.args
         = "Backend 'napalm' not found. Available backends: netmiko"
    /\ runners = <<<<"netmiko", "runner_b">>>>


\* C21: the targets run_on_hosts hands to nr.run are, for a host_name
\* filter, the one host of the inventory with that name, or none when the
\* inventory has no such host; for a group_name filter (and no host_name),
\* the hosts of the inventory whose groups contain group_name, each once;
\* with neither filter, the whole inventory.
C21_TargetResolution ==
    (pc = "Dispatching" /\ request.entry \in {TOOL, RUNNER}) =>
        LET inv == heap[nr]
        IN IF Truthy(request.host_name)
           THEN /\ request.host_name \in Range(inv) => targets = <<request.host_name>>
                /\ request.host_name \notin Range(inv) => targets = <<>>
           ELSE IF Truthy(request.group_name)
           THEN /\ Range(targets)
                     = {h \in Range(inv) : request.group_name \in GroupsOf(h)}
                /\ Cardinality(Range(targets)) = Len(targets)
           ELSE targets = inv

C21_Witness ==
    /\ pc = "Dispatching"
    /\ request.entry = RUNNER
    /\ ~Truthy(request.host_name)
    /\ request.group_name = "core"
    /\ Len(targets) >= 2
    /\ Len(targets) < Len(heap[nr])

\* a required parameter of the runner operation is empty
MissingParameter ==
    \/ request.entry = TOOL /\ request.command = ""
    \/ /\ request.entry = PARAMIKO_TOOL
       /\ \/ request.operation = SSH_COMMAND /\ request.command = ""
          \/ request.operation \in Operations \ {SSH_COMMAND} /\ request.local_path = <<>>
          \/ request.operation \in Operations \ {SSH_COMMAND} /\ request.remote_path = ""

TargetFailed(h) ==
    \/ request.entry = TOOL /\ TaskFailed(outcome[h])
    \/ /\ request.entry = PARAMIKO_TOOL
       /\ h \in DOMAIN tasks
       /\ \E i \in 1..Len(tasks[h].log) : tasks[h].log[i][2] = "failed"

C24_ConnectionAlwaysClosed ==
    /\ \A h \in DOMAIN tasks :
          (h \in DOMAIN outcome \/ tasks[h].pc = "done") =>
              /\ tasks[h].ssh = "closed"
              /\ tasks[h].channel # "open"
    /\ (request.entry = PARAMIKO_TOOL /\ aggregated_result # <<>>) =>
          \A h \in Range(targets) :
              /\ h \in DOMAIN tasks
              /\ tasks[h].ssh = "closed"
              /\ tasks[h].channel # "open"

C24_Witness ==
    /\ request.operation = SFTP_UPLOAD
    /\ pc = "Normalizing"
    /\ Len(targets) >= 2
    /\ \E h \in DOMAIN tasks :
          /\ tasks[h].log = <<<<"connect", "ok">>, <<"open_channel", "ok">>,
                              <<"transfer", "failed">>, <<"release_connection", "ok">>>>
          /\ tasks[h].ssh = "closed"
    /\ \E h \in DOMAIN tasks : tasks[h].log[1] = <<"connect", "failed">>

\* the statements of the try block of a task, in their order
StepsOf(operation) ==
    IF operation \in {SFTP_UPLOAD, SFTP_DOWNLOAD}
    THEN <<"connect", "open_channel", "transfer", "close_channel">>
    ELSE <<"connect", "open_channel", "transfer">>

\* the steps a task has executed, without the releases of its finally clauses
StepsRun(t) ==
    SelectSeq(t.log, LAMBDA e : e[1] \notin {"release_channel", "release_connection"})

\* some statement of the task of host h can run
TaskStep(h) ==
    \/ TaskConnect(h)
    \/ TaskOpenChannel(h)
    \/ TaskBeginTransfer(h)
    \/ TaskEndTransfer(h)
    \/ TaskCloseChannel(h)
    \/ TaskReleaseConnection(h)

\* C25: the steps a target has executed (connect, open the transfer
\* channel, transfer, close the channel) are the first steps of the
\* operation in their order; a failed step is the last step the target
\* executes, only the releases of the finally clauses follow it; a step of
\* one target changes nothing of another target's task, and a target that
\* has not finished can take its next step whatever has happened to the
\* others.
C25_StepsInOrderFailureAborts ==
    /\ [](\A h \in DOMAIN tasks :
             LET run == StepsRun(tasks[h])
                 steps == StepsOf(request.operation)
             IN /\ Len(run) <= Len(steps)
                /\ \A i \in 1..Len(run) : run[i][1] = steps[i]
                /\ \A i \in 1..Len(run) : run[i][2] = "failed" => i = Len(run)
                /\ \A i \in 1..Len(tasks[h].log) :
                      tasks[h].log[i][2] = "failed" =>
                          \A j \in (i + 1)..Len(tasks[h].log) :
                              tasks[h].log[j][1] \in {"release_channel",
                                                      "release_connection"}
                /\ tasks[h].pc # "done" => ENABLED TaskStep(h))
    /\ [][\A h \in DOMAIN tasks : \A g \in DOMAIN tasks :
             (g # h /\ h \in DOMAIN tasks' /\ tasks'[h] # tasks[h]) =>
                 (g \in DOMAIN tasks' /\ tasks'[g] = tasks[g]
                  /\ (g \in DOMAIN outcome => (g \in DOMAIN outcome'
                                               /\ outcome'[g] = outcome[g])))]_vars

C25_Witness ==
    /\ request.operation = SFTP_DOWNLOAD
    /\ Len(targets) >= 2
    /\ \E h \in DOMAIN tasks : \E g \in DOMAIN tasks :
          /\ tasks[h].log = <<<<"connect", "ok">>, <<"open_channel", "failed">>,
                              <<"release_connection", "ok">>>>
          /\ tasks[g].log = <<<<"connect", "ok">>, <<"open_channel", "ok">>,
                              <<"transfer", "ok">>, <<"close_channel", "ok">>,
                              <<"release_connection", "ok">>>>

\* C26: when the runner call of a Paramiko tool has raised, the response of
\* the tool carries error and message and no other key: the error_type and
\* message of an MCPException, or execution_error and the string of any
\* other exception.
C26_RaisedRunnerCallEnvelope ==
    (pc = "Done" /\ request.entry = PARAMIKO_TOOL
     /\ result.tag \in {"MCPException", "Raised"}) =>
        /\ response = [NoResponse EXCEPT
                          !.error = IF result.tag = "MCPException"
                                    THEN result.error_type ELSE EXECUTION_ERROR,
                          !.message = result.message]
        /\ response.backend = Absent
        /\ response.target = Absent
        /\ response.data = AbsentData
        /\ MissingParameter => response.error = INVALID_PARAMETERS
        /\ request.operation = SFTP_LIST =>
              response = error_response(
                  EXECUTION_ERROR, "'ParamikoRunner' object has no attribute 'sftp_list'")

C26_Witness ==
    /\ pc = "Done"
    /\ request.entry = PARAMIKO_TOOL
    /\ request.operation = SSH_COMMAND
    /\ result.tag = "MCPException"
    /\ response = error_response(INVALID_PARAMETERS, "Command parameter is required")

\* a step of reload_nornir_inventory whose reload raised
ReloadFails ==
    /\ UNCHANGED requestVars
    /\ disk' = disk
    /\ disk.config # "ok"
    /\ history'.response.error = RELOAD_FAILED
    /\ (history' # history \/ init_calls' # init_calls)

\* a step in which a runner obtains the instance from a manager that holds one
GetWithInstance ==
    /\ ~nornir_fetched
    /\ nornir_fetched'
    /\ manager.nornir # NoInstance

InBlock(t) == threads[t].pc \in {"locked", "initialising", "releasing", "raising"}

\* C28: whatever the interleaving of instance(), get() and reload() calls
\* on the one class-level lock, every call that has started returns or
\* raises: the lock is held only by a thread inside its with block, which is
\* left with the lock released both normally and by an exception; a thread
\* enters the block only when the lock is free, and never while holding it.
C28_NoCallBlocksForever ==
    /\ \A t \in Threads :
          threads[t].pc \in {"waiting", "locked", "initialising"}
             ~> threads[t].pc \in {"returned", "raised"}
    /\ [](\A t \in Threads : InBlock(t) <=> manager.lock = t)
    /\ [](manager.lock \in Threads \cup {NoThread})
    /\ [][\A t \in Threads :
             /\ (threads[t].pc = "waiting" /\ threads'[t].pc = "locked") =>
                   manager.lock = NoThread /\ manager'.lock = t
             /\ (InBlock(t) /\ ~InBlock(t)') =>
                   /\ manager'.lock = NoThread
                   /\ threads'[t].pc \in {"returning", "returned", "raised"}]_vars

C28_Witness ==
    /\ disk = DiskBroken
    /\ \E t, u \in Threads :
          /\ threads[t].op = "get"
          /\ threads[t].pc = "raised"
          /\ threads[u].op = "reload"
          /\ threads[u].pc = "raised"
          /\ manager.lock = NoThread
          /\ init_calls = 2

\* a get that has returned to its caller
GetReturned(t) == threads[t].op = "get" /\ threads[t].pc = "returned"

\* C29: a get that returns, returns an instance and never None, and the
\* instance is one InitNornir has finished building, whatever reloads run
\* beside it; when InitNornir raises inside get, the call raises
\* RuntimeError and the manager caches nothing, so the next get on a manager
\* without an instance calls InitNornir again.
C29_GetNeverReturnsNone ==
    /\ [](\A t \in Threads :
             GetReturned(t) =>
                /\ threads[t].got # NoInstance
                /\ threads[t].got \in 1..Len(heap)
                /\ heap[threads[t].got] = disk.hosts)
    /\ [](manager.nornir # NoInstance => manager.nornir \in 1..Len(heap))
    /\ [][\A t \in Threads :
             /\ (threads[t].pc = "initialising" /\ threads'[t].pc = "raising") =>
                   /\ get_init(manager, heap, disk, init_calls).exception.type
                         = "RuntimeError"
                   /\ manager'.nornir = NoInstance
                   /\ heap' = heap
                   /\ init_calls' = init_calls + 1
             /\ (/\ threads[t].op = "get"
                 /\ threads[t].pc = "locked"
                 /\ threads'[t].pc # "locked"
                 /\ manager.nornir = NoInstance
                 /\ disk.config # "missing") =>
                   threads'[t].pc = "initialising"
             /\ (threads[t].op = "get" /\ threads'[t].pc = "raised") =>
                   threads'[t].got = NoInstance]_vars

C29_Witness ==
    /\ disk = DiskBroken
    /\ history.made = 3
    /\ init_calls = 2
    /\ manager.nornir = NoInstance
    /\ \E t \in Threads : threads[t].op = "get" /\ threads[t].pc = "raised"
    /\ \A t \in Threads : threads[t].op \in {"none", "get"}

\* the targets whose task is writing a local file at this moment
Writing == {h \in DOMAIN tasks : tasks[h].pc = "transferring" /\ tasks[h].writing # <<>>}

\* C30: in a download with more than one target no two targets are writing
\* the same local path at the same time, and in a download with exactly one
\* target the file is written to the caller's local_path.
C30_NoSharedLocalPath ==
    (request.entry = PARAMIKO_TOOL /\ IsDownload(request.operation)) =>
        /\ Len(targets) > 1 =>
              \A h, k \in Writing : h # k => tasks[h].writing # tasks[k].writing
        /\ Len(targets) = 1 =>
              \A h \in Writing : tasks[h].writing = request.local_path

=============================================================================
